---- MODULE Spec2Model ----
(***************************************************************************)
(* A model of the liberty parser library (src/liberty) and of the JSON     *)
(* projection built on it (src/LibToJson.py).                              *)
(*                                                                         *)
(* Text is a sequence of one-character strings.  Numbers are fixed-point:  *)
(* a float x is the integer x * Scale (Scale = 1000), so that float() and  *)
(* str() of a float are conversions between digits and a value.            *)
(***************************************************************************)
EXTENDS Integers, Sequences, FiniteSets, TLC

VARIABLES
    attributes,   \* Group.attributes of the group under query: a list of Attribute
    groups,       \* Group.groups of the group under query: a list of child Group
    args,         \* Group.args of the group under query
    defines,      \* Group.defines of the group under query
    ret,          \* what the last Group method call returned or raised
    original,     \* the attributes the group under query was constructed with
    assigned,     \* how many assignments group[key] = value have completed
    given,        \* what the liberty text under parse was written from
    src,          \* data: the liberty text handed to the parser
    lpc,          \* how far the parse / format / parse / format sequence has run
    multi,        \* tops = parse_multi_liberty(data)
    lib,          \* library = parse_liberty(data)
    str1,         \* str1 = str(library)
    lib2,         \* library2 = parse_liberty(str1)
    str2,         \* str2 = str(library2)
    bgiven,       \* what the boolean function under test was written from
    bpc,          \* how far the format / parse sequence of the boolean function has run
    function,     \* the sympy expression handed to format_boolean_function
    f_str,        \* the text of the boolean function
    f_parsed,     \* parse_boolean_function(f_str)
    jgiven,       \* what the liberty file under conversion was written from
    liberty_file, \* the text of the liberty file handed to lib_to_json
    json_file     \* what lib_to_json wrote to the JSON file, or what it raised

groupVars == <<attributes, groups, args, defines, ret, original, assigned>>
libertyVars == <<given, src, lpc, multi, lib, str1, lib2, str2>>
booleanVars == <<bgiven, bpc, function, f_str, f_parsed>>
jsonVars == <<jgiven, liberty_file, json_file>>

vars == <<attributes, groups, args, defines, ret, original, assigned, given, src, lpc, multi, lib, str1, lib2, str2,
          bgiven, bpc, function, f_str, f_parsed, jgiven, liberty_file, json_file>>

\* What a step on the group under query leaves alone, a step on the liberty
\* text, a step on the boolean function, and a conversion to JSON.
notGroup == <<libertyVars, booleanVars, jsonVars>>
notLiberty == <<groupVars, booleanVars, jsonVars>>
notBoolean == <<groupVars, libertyVars, jsonVars>>
notJson == <<groupVars, libertyVars, booleanVars>>

(***************************************************************************)
(* Bounds of the model.                                                    *)
(***************************************************************************)
MaxAttrs == 3
MaxGroups == 2
MaxTops == 2
MaxStmts == 2
MaxOperands == 3
MaxNesting == 2
MaxJsonAttrs == 2
MaxSelect == 2
\* The number of tokens the lexer is run for at a time.
LexBlock == 8

(***************************************************************************)
(* Values (src/liberty/types.py).  Python's dynamic types are tags.        *)
(***************************************************************************)
None == [t |-> "None"]
Number(m) == [t |-> "float", v |-> m]
Name(s) == [t |-> "str", s |-> s]
EscapedString(s) == [t |-> "EscapedString", value |-> s]
WithUnit(m, u) == [t |-> "WithUnit", value |-> m, unit |-> u]
List(l) == [t |-> "list", l |-> l]
ArithExpression(s) == [t |-> "ArithExpression", value |-> s]

Attribute(n, v) == [name |-> n, value |-> v]
Define(a, g, ty) == [attribute_name |-> a, group_name |-> g, attribute_type |-> ty]
Group(n, a, at, gs, ds) ==
    [group_name |-> n, args |-> a, attributes |-> at, groups |-> gs, defines |-> ds]

\* `x == s` in Python for a parsed value x and a str s: str.__eq__ for a name,
\* EscapedString.__eq__ (value == other) for a quoted string, False otherwise.
PyEqStr(x, s) ==
    \/ x.t = "str" /\ x.s = s
    \/ x.t = "EscapedString" /\ x.value = s

RECURSIVE Filter(_, _)
\* A list comprehension [x for x in l if Keep(x)], Keep given as a set of indices.
Filter(l, keep) ==
    IF l = << >> THEN << >>
    ELSE LET n == Len(l)
             front == Filter(SubSeq(l, 1, n - 1), keep)
         IN IF n \in keep THEN Append(front, l[n]) ELSE front

\* Group.get_attributes
get_attributes_dedup(attrs, key) ==
    LET hit == {i \in 1..Len(attrs) :
                  /\ attrs[i].name = key
                  /\ \A j \in 1..(i - 1) : attrs[j] # attrs[i]}
        sel == Filter(attrs, hit)
    IN [i \in 1..Len(sel) |-> sel[i].value]

get_attributes(attrs, key) ==
    LET hit == {i \in 1..Len(attrs) : attrs[i].name = key}
        sel == Filter(attrs, hit)
    IN [i \in 1..Len(sel) |-> sel[i].value]

\* Group.get_attribute: the value, the default, or the failed assertion.
get_attribute_first(attrs, key, default) ==
    LET found == get_attributes(attrs, key)
    IN IF Len(found) = 0 THEN [kind |-> "default", value |-> default]
       ELSE [kind |-> "value", value |-> found[1]]

get_attribute(attrs, key, default) ==
    LET found == get_attributes(attrs, key)
    IN IF Len(found) = 0 THEN [kind |-> "default", value |-> default]
       ELSE IF Len(found) # 1 THEN [kind |-> "AssertionError", count |-> Len(found)]
       ELSE [kind |-> "value", value |-> found[1]]

\* Group.get_groups; argument = None stands for the omitted argument.
get_groups_anyarg(gs, type_name, argument) ==
    Filter(gs, {i \in 1..Len(gs) :
                  /\ gs[i].group_name = type_name
                  /\ \/ argument = None
                     \/ \E k \in 1..Len(gs[i].args) : PyEqStr(gs[i].args[k], argument.s)})

get_groups(gs, type_name, argument) ==
    Filter(gs, {i \in 1..Len(gs) :
                  /\ gs[i].group_name = type_name
                  /\ \/ argument = None
                     \/ /\ Len(gs[i].args) > 0
                        /\ PyEqStr(gs[i].args[1], argument.s)})

\* Group.get_group
get_group(gs, type_name, argument) ==
    LET found == get_groups(gs, type_name, argument)
    IN IF Len(found) # 1
       THEN [kind |-> "AssertionError", count |-> Len(found)]
       ELSE [kind |-> "value", value |-> found[1]]

(***************************************************************************)
(* Characters and the lexer (the terminals of liberty_grammar,             *)
(* src/liberty/parser.py lines 51-80, as lark's lexer matches them).       *)
(***************************************************************************)
NL == "\n"
CR == "\r"
BS == "\\"
DQ == "\""
LETTER ==
    {"a", "b", "c", "d", "e", "f", "g", "h", "i", "j", "k", "l", "m",
     "n", "o", "p", "q", "r", "s", "t", "u", "v", "w", "x", "y", "z",
     "A", "B", "C", "D", "E", "F", "G", "H", "I", "J", "K", "L", "M",
     "N", "O", "P", "Q", "R", "S", "T", "U", "V", "W", "X", "Y", "Z"}
DigitChars == <<"0", "1", "2", "3", "4", "5", "6", "7", "8", "9">>
DIGIT == {DigitChars[i] : i \in 1..10}
DigitVal(c) == (CHOOSE i \in 1..10 : DigitChars[i] = c) - 1
WS == {" ", "\t", NL, CR}
Punctuation == {"(", ")", "{", "}", ":", ";", ",", "[", "]", "*", "+", "-", "/", "!"}

RECURSIVE Pow10(_)
Pow10(n) == IF n <= 0 THEN 1 ELSE 10 * Pow10(n - 1)

RECURSIVE RunEnd(_, _, _)
\* The first index at or after i whose character is not in S.
RunEnd(cs, i, S) ==
    IF i <= Len(cs) /\ cs[i] \in S THEN RunEnd(cs, i + 1, S) ELSE i

RECURSIVE FindFrom(_, _, _)
\* The first index at or after i where pat occurs in cs, or 0.
FindFrom(cs, pat, i) ==
    IF i + Len(pat) - 1 > Len(cs) THEN 0
    ELSE IF SubSeq(cs, i, i + Len(pat) - 1) = pat THEN i
    ELSE FindFrom(cs, pat, i + 1)

\* COMMENT: /\/\*(\*(?!\/)|[^*])*\*\//
MatchComment(cs, i) ==
    IF i + 1 <= Len(cs) /\ cs[i] = "/" /\ cs[i + 1] = "*"
    THEN LET close == FindFrom(cs, <<"*", "/">>, i + 2)
         IN IF close = 0 THEN i ELSE close + 2
    ELSE i

\* NEWLINE: /\\?\r?\n/ (the bare line ends are white space already).
MatchNewline(cs, i) ==
    IF i + 1 <= Len(cs) /\ cs[i] = BS /\ cs[i + 1] = NL THEN i + 2
    ELSE IF i + 2 <= Len(cs) /\ cs[i] = BS /\ cs[i + 1] = CR /\ cs[i + 2] = NL THEN i + 3
    ELSE i

RECURSIVE SkipIgnored(_, _)
\* %ignore WS, COMMENT, NEWLINE
SkipIgnored(cs, i) ==
    IF i > Len(cs) THEN i
    ELSE IF cs[i] \in WS THEN SkipIgnored(cs, i + 1)
    ELSE IF MatchNewline(cs, i) # i THEN SkipIgnored(cs, MatchNewline(cs, i))
    ELSE IF MatchComment(cs, i) # i THEN SkipIgnored(cs, MatchComment(cs, i))
    ELSE i

\* SIGNED_NUMBER (common.lark): ["+"|"-"] (INT _EXP | DECIMAL _EXP? | INT),
\* DECIMAL: INT "." INT? | "." INT, _EXP: ("e"|"E") ["+"|"-"] INT.
SignEnd(cs, i) == IF i <= Len(cs) /\ cs[i] \in {"+", "-"} THEN i + 1 ELSE i

\* The end of "." INT? after the digits s0..d1-1, or 0 when no digit was read.
DecimalEnd(s0, d1, d2) == IF d1 > s0 \/ d2 > d1 + 1 THEN d2 ELSE 0

\* The end of the mantissa that starts at s0 with the digits s0..d1-1, or 0.
MantissaEnd(cs, s0, d1) ==
    IF d1 <= Len(cs) /\ cs[d1] = "." THEN DecimalEnd(s0, d1, RunEnd(cs, d1 + 1, DIGIT))
    ELSE IF d1 > s0 THEN d1
    ELSE 0

\* The exponent's digits e1..e2-1 after a mantissa that ends at m.
ExponentEnd(m, e1, e2) == IF e2 > e1 THEN e2 ELSE m

ExponentDigits(cs, m, e1) == ExponentEnd(m, e1, RunEnd(cs, e1, DIGIT))

NumberEnd(cs, i, m) ==
    IF m = 0 THEN i
    ELSE IF m <= Len(cs) /\ cs[m] \in {"e", "E"} THEN ExponentDigits(cs, m, SignEnd(cs, m + 1))
    ELSE m

NumberFrom(cs, i, s0) == NumberEnd(cs, i, MantissaEnd(cs, s0, RunEnd(cs, s0, DIGIT)))

\* The end of the longest SIGNED_NUMBER at i, or i when there is none.
MatchNumber(cs, i) == NumberFrom(cs, i, SignEnd(cs, i))

\* NUMBER_WITH_UNIT: SIGNED_NUMBER ( one letter but e, E | LETTER LETTER+ ),
\* for a number i..n-1 and the letters n..u-1 after it.
\* lark orders the alternatives of a terminal longest first.
UnitEnd_ShortFirst(cs, i, n, u) ==
    IF n = i THEN i
    ELSE IF u - n >= 1 /\ cs[n] \notin {"e", "E"} THEN n + 1
    ELSE IF u - n >= 2 THEN u
    ELSE i

UnitEnd(cs, i, n, u) ==
    IF n = i THEN i
    ELSE IF u - n >= 2 THEN u
    ELSE IF u - n = 1 /\ cs[n] \notin {"e", "E"} THEN n + 1
    ELSE i

UnitAfter(cs, i, n) == UnitEnd(cs, i, n, RunEnd(cs, n, LETTER))

MatchNumberWithUnit(cs, i) == UnitAfter(cs, i, MatchNumber(cs, i))

\* NAME : ("_"|LETTER) ("_"|"."|"!"|LETTER|DIGIT)*
MatchName(cs, i) ==
    IF i <= Len(cs) /\ cs[i] \in LETTER \cup {"_"}
    THEN RunEnd(cs, i + 1, LETTER \cup DIGIT \cup {"_", ".", "!"})
    ELSE i

RECURSIVE BackslashRun(_, _)
\* The number of consecutive backslashes that end at index j.
BackslashRun(cs, j) ==
    IF j >= 1 /\ cs[j] = BS THEN 1 + BackslashRun(cs, j - 1) ELSE 0

RECURSIVE ClosingQuote(_, _)
\* The first quote at or after j that an even run of backslashes precedes, or 0.
ClosingQuote(cs, j) ==
    IF j > Len(cs) THEN 0
    ELSE IF cs[j] = DQ /\ BackslashRun(cs, j - 1) % 2 = 0 THEN j
    ELSE ClosingQuote(cs, j + 1)

\* ESCAPED_STRING_MULTILINE : "\"" _STRING_ESC_INNER_MULTILINE "\""
StringEnd(i, close) == IF close = 0 THEN i ELSE close + 1

MatchString(cs, i) ==
    IF i <= Len(cs) /\ cs[i] = DQ THEN StringEnd(i, ClosingQuote(cs, i + 1)) ELSE i

Token(k, cs, i, end) == [k |-> k, s |-> SubSeq(cs, i, end - 1), end |-> end]

KeywordDefine == <<"d", "e", "f", "i", "n", "e">>

NameToken(tok) == IF tok.s = KeywordDefine THEN [tok EXCEPT !.k = "DEFINE"] ELSE tok

\* The token at i from where each terminal's match ends (i: no match).  The
\* terminals are tried in lark's order: the longest patterns first, a keyword
\* over the NAME it matches, then the one-character literals.
TokenOf(cs, i, str, nwu, num, name) ==
    IF str # i THEN Token("ESCAPED_STRING_MULTILINE", cs, i, str)
    ELSE IF nwu # i THEN Token("NUMBER_WITH_UNIT", cs, i, nwu)
    ELSE IF num # i THEN Token("SIGNED_NUMBER", cs, i, num)
    ELSE IF name # i THEN NameToken(Token("NAME", cs, i, name))
    ELSE IF cs[i] \in Punctuation THEN Token(cs[i], cs, i, i + 1)
    ELSE Token("UnexpectedCharacters", cs, i, i + 1)

TokenAt(cs, i) ==
    TokenOf(cs, i, MatchString(cs, i), MatchNumberWithUnit(cs, i), MatchNumber(cs, i),
            MatchName(cs, i))

RECURSIVE LexFrom(_, _, _)
\* The tokens from tok on, n at most; an unexpected character ends the lexing.
LexToken(cs, tok, n) ==
    IF tok.k = "UnexpectedCharacters" THEN <<tok>>
    ELSE <<tok>> \o LexFrom(cs, tok.end, n - 1)

LexAt(cs, i, n) ==
    IF i > Len(cs) \/ n = 0 THEN << >> ELSE LexToken(cs, TokenAt(cs, i), n)

LexFrom(cs, i0, n) == LexAt(cs, SkipIgnored(cs, i0), n)

\* The lexer reads the text block by block: LexBlock tokens, then the tokens
\* after the last of them.
RECURSIVE LexBlocks(_, _)
LexMore(cs, toks) ==
    IF Len(toks) < LexBlock \/ toks[Len(toks)].k = "UnexpectedCharacters" THEN toks
    ELSE toks \o LexBlocks(cs, toks[Len(toks)].end)

LexBlocks(cs, i0) == LexMore(cs, LexFrom(cs, i0, LexBlock))

Lex(cs) == LexBlocks(cs, 1)

(***************************************************************************)
(* LibertyTransformer (src/liberty/parser.py lines 84-187).                *)
(***************************************************************************)
RECURSIVE DigitsVal(_)
DigitsVal(ds) ==
    IF ds = << >> THEN 0
    ELSE 10 * DigitsVal(SubSeq(ds, 1, Len(ds) - 1)) + DigitVal(ds[Len(ds)])

\* mantissa * 10^expo in thousandths (smaller digits are cut).
Scaled(mantissa, shift) ==
    IF shift >= 0 THEN mantissa * Pow10(shift) ELSE mantissa \div Pow10(0 - shift)

\* The exponent written at s[e..], e the index of "e" (none past the end).
ExponentOf(s, e) ==
    IF e > Len(s) THEN 0
    ELSE IF s[e + 1] = "-" THEN 0 - DigitsVal(SubSeq(s, e + 2, Len(s)))
    ELSE IF s[e + 1] = "+" THEN DigitsVal(SubSeq(s, e + 2, Len(s)))
    ELSE DigitsVal(SubSeq(s, e + 1, Len(s)))

\* The digits s0..d1-1, then "." and the digits up to d2-1 when d2 > d1.
Magnitude(s, s0, d1, d2) ==
    IF d2 > d1
    THEN Scaled(DigitsVal(SubSeq(s, s0, d1 - 1)) * Pow10(d2 - d1 - 1)
                    + DigitsVal(SubSeq(s, d1 + 1, d2 - 1)),
                3 - (d2 - d1 - 1) + ExponentOf(s, d2))
    ELSE Scaled(DigitsVal(SubSeq(s, s0, d1 - 1)), 3 + ExponentOf(s, d1))

MagnitudeFrom(s, s0, d1) ==
    IF d1 <= Len(s) /\ s[d1] = "."
    THEN Magnitude(s, s0, d1, RunEnd(s, d1 + 1, DIGIT))
    ELSE Magnitude(s, s0, d1, d1)

Unsigned(s, s0) == MagnitudeFrom(s, s0, RunEnd(s, s0, DIGIT))

\* float(s) for a SIGNED_NUMBER s, in thousandths.
float(s) ==
    IF s[1] = "-" THEN 0 - Unsigned(s, 2)
    ELSE IF s[1] = "+" THEN Unsigned(s, 2)
    ELSE Unsigned(s, 1)

RECURSIVE Replace(_, _, _)
\* str.replace(pat, rep)
Replace(s, pat, rep) ==
    IF Len(s) < Len(pat) THEN s
    ELSE IF SubSeq(s, 1, Len(pat)) = pat
         THEN rep \o Replace(SubSeq(s, Len(pat) + 1, Len(s)), pat, rep)
    ELSE <<s[1]>> \o Replace(SubSeq(s, 2, Len(s)), pat, rep)

\* LibertyTransformer.escaped_string
escaped_string(s) ==
    EscapedString(Replace(Replace(SubSeq(s, 2, Len(s) - 1), <<BS, DQ>>, <<DQ>>),
                          <<BS, NL>>, << >>))

RECURSIVE NatDigits(_)
NatDigits(n) ==
    IF n < 10 THEN <<DigitChars[n + 1]>>
    ELSE Append(NatDigits(n \div 10), DigitChars[(n % 10) + 1])

\* str(x) of a float x given in thousandths: the shortest digits that read back.
FormatFloat(m) ==
    LET a == IF m < 0 THEN 0 - m ELSE m
        f == a % 1000
        frac == IF f % 100 = 0 THEN <<DigitChars[(f \div 100) + 1]>>
                ELSE IF f % 10 = 0
                     THEN <<DigitChars[(f \div 100) + 1], DigitChars[((f \div 10) % 10) + 1]>>
                ELSE <<DigitChars[(f \div 100) + 1], DigitChars[((f \div 10) % 10) + 1],
                       DigitChars[(f % 10) + 1]>>
    IN (IF m < 0 THEN <<"-">> ELSE << >>) \o NatDigits(a \div 1000) \o <<".">> \o frac

RECURSIVE Join(_, _)
\* sep.join(strs)
Join(strs, sep) ==
    IF strs = << >> THEN << >>
    ELSE IF Len(strs) = 1 THEN strs[1]
    ELSE strs[1] \o sep \o Join(Tail(strs), sep)

\* LibertyTransformer.arithmetic_expression: " ".join(f"{x}" for x in s)
arithmetic_expression(children) == ArithExpression(Join(children, <<" ">>))

RECURSIVE TrailingAlpha(_)
\* for c in reversed(num_unit): if not c.isalpha(): break; unit_len += 1
TrailingAlpha(s) ==
    IF s # << >> /\ s[Len(s)] \in LETTER
    THEN 1 + TrailingAlpha(SubSeq(s, 1, Len(s) - 1))
    ELSE 0

\* LibertyTransformer.number_with_unit
SplitUnit(num_unit, unit_len) ==
    WithUnit(float(SubSeq(num_unit, 1, Len(num_unit) - unit_len)),
             SubSeq(num_unit, Len(num_unit) - unit_len + 1, Len(num_unit)))

number_with_unit(num_unit) == SplitUnit(num_unit, TrailingAlpha(num_unit))

\* LibertyTransformer.define_argument
define_argument(arg) ==
    IF Len(arg) >= 1 /\ arg[1] = DQ /\ arg[Len(arg)] = DQ
    THEN SubSeq(arg, 2, Len(arg) - 1)
    ELSE arg

\* LibertyTransformer.group: the body's items sorted by their class.
group(group_name, group_args, body) ==
    LET pick(k) == Filter(body, {i \in 1..Len(body) : body[i].class = k})
        unwrap(l) == [i \in 1..Len(l) |-> l[i].v]
    IN Group(group_name, group_args,
             unwrap(pick("Attribute")), unwrap(pick("Group")), unwrap(pick("Define")))

(***************************************************************************)
(* The parser of liberty_grammar (src/liberty/parser.py lines 9-48): one   *)
(* operator per rule, each from a token index to the value and the index   *)
(* after it.                                                               *)
(***************************************************************************)
Ok(v, i) == [ok |-> TRUE, v |-> v, i |-> i]
Fail == [ok |-> FALSE]
Kind(ts, i) == IF i <= Len(ts) THEN ts[i].k ELSE "$END"

\* ?arith_op: "*" -> op_mul | "+" -> op_add | "-" -> op_sub | "/" -> op_div
ArithOps == {"*", "+", "-", "/"}

\* f"{x}" for a child x of arithmetic_expression: a name or a float.
Operand(tok) == IF tok.k = "NAME" THEN tok.s ELSE FormatFloat(float(tok.s))

\* (arith_op (name | number))+ after the children in acc.
RECURSIVE ParseArithmetic(_, _, _)
ParseArithmetic(ts, i, acc) ==
    IF Kind(ts, i) \notin ArithOps THEN Ok(arithmetic_expression(acc), i)
    ELSE IF Kind(ts, i + 1) \in {"NAME", "SIGNED_NUMBER"}
         THEN ParseArithmetic(ts, i + 2, acc \o <<ts[i].s, Operand(ts[i + 1])>>)
    ELSE Fail

\* arithmetic_expression: (("-" name | name | number) (arith_op (name | number))+)
\*                      | ("!" name)
\* The literals "-" and "!" are anonymous tokens, which lark leaves out of the
\* children it hands to the transformer.
ParseSigned(ts, i) ==
    IF Kind(ts, i) = "!" /\ Kind(ts, i + 1) = "NAME"
    THEN Ok(arithmetic_expression(<<ts[i + 1].s>>), i + 2)
    ELSE IF Kind(ts, i) = "-" /\ Kind(ts, i + 1) = "NAME" /\ Kind(ts, i + 2) \in ArithOps
         THEN ParseArithmetic(ts, i + 2, <<ts[i + 1].s>>)
    ELSE Fail

\* name or number, alone or as the first operand of an arithmetic_expression
ParseOperand(ts, i, alone) ==
    IF Kind(ts, i + 1) \in ArithOps THEN ParseArithmetic(ts, i + 1, <<Operand(ts[i])>>)
    ELSE Ok(alone, i + 1)

\* ?value: name | number | NUMBER_WITH_UNIT -> number_with_unit
\*       | string -> escaped_string | arithmetic_expression
ParseValue(ts, i) ==
    CASE Kind(ts, i) = "NAME" -> ParseOperand(ts, i, Name(ts[i].s))
      [] Kind(ts, i) = "SIGNED_NUMBER" -> ParseOperand(ts, i, Number(float(ts[i].s)))
      [] Kind(ts, i) \in {"-", "!"} -> ParseSigned(ts, i)
      [] Kind(ts, i) = "NUMBER_WITH_UNIT" -> Ok(number_with_unit(ts[i].s), i + 1)
      [] Kind(ts, i) = "ESCAPED_STRING_MULTILINE" -> Ok(escaped_string(ts[i].s), i + 1)
      [] OTHER -> Fail

RECURSIVE ParseMoreArguments(_, _, _)
MoreAfterValue(ts, acc, v) ==
    IF v.ok THEN ParseMoreArguments(ts, v.i, Append(acc, v.v)) ELSE Fail

ParseMoreArguments(ts, i, acc) ==
    IF Kind(ts, i) = ")" THEN Ok(acc, i + 1)
    ELSE IF Kind(ts, i) = "," THEN MoreAfterValue(ts, acc, ParseValue(ts, i + 1))
    ELSE Fail

\* argument_list: "(" [value ("," value)*] ")"; the unmatched [] is one None.
ParseArgumentList(ts, i) ==
    IF Kind(ts, i) # "(" THEN Fail
    ELSE IF Kind(ts, i + 1) = ")" THEN Ok(<<None>>, i + 2)
    ELSE MoreAfterValue(ts, << >>, ParseValue(ts, i + 1))

\* define_argument: string | name
ParseDefineArgument(ts, i) ==
    IF Kind(ts, i) \in {"NAME", "ESCAPED_STRING_MULTILINE"}
    THEN Ok(define_argument(ts[i].s), i + 1)
    ELSE Fail

SkipSemicolon(ts, i) == IF Kind(ts, i) = ";" THEN i + 1 ELSE i

\* define: "define" "(" define_argument "," define_argument "," define_argument ")" ";"?
DefineAfterThird(ts, a, b, c) ==
    IF c.ok /\ Kind(ts, c.i) = ")"
    THEN Ok([class |-> "Define", v |-> Define(a.v, b.v, c.v)], SkipSemicolon(ts, c.i + 1))
    ELSE Fail

DefineAfterSecond(ts, a, b) ==
    IF b.ok /\ Kind(ts, b.i) = ","
    THEN DefineAfterThird(ts, a, b, ParseDefineArgument(ts, b.i + 1))
    ELSE Fail

DefineAfterFirst(ts, a) ==
    IF a.ok /\ Kind(ts, a.i) = ","
    THEN DefineAfterSecond(ts, a, ParseDefineArgument(ts, a.i + 1))
    ELSE Fail

ParseDefine(ts, i) ==
    IF Kind(ts, i + 1) = "(" THEN DefineAfterFirst(ts, ParseDefineArgument(ts, i + 2))
    ELSE Fail

RECURSIVE ParseGroup(_, _)
RECURSIVE ParseStatement(_, _)
RECURSIVE ParseGroupBody(_, _, _)

\* group: name argument_list group_body, reduced by LibertyTransformer.group
GroupAfterBody(ts, i, a, b) ==
    IF b.ok THEN Ok(group(ts[i].s, a.v, b.v), b.i) ELSE Fail

GroupAfterArguments(ts, i, a) ==
    IF ~a.ok \/ Kind(ts, a.i) # "{" THEN Fail
    ELSE GroupAfterBody(ts, i, a, ParseGroupBody(ts, a.i + 1, << >>))

ParseGroup(ts, i) ==
    IF Kind(ts, i) # "NAME" THEN Fail
    ELSE GroupAfterArguments(ts, i, ParseArgumentList(ts, i + 1))

\* simple_attribute: name ":" value ";"?
SimpleAttribute(ts, i, v) ==
    IF v.ok
    THEN Ok([class |-> "Attribute", v |-> Attribute(ts[i].s, v.v)], SkipSemicolon(ts, v.i))
    ELSE Fail

GroupStatement(g) ==
    IF g.ok THEN Ok([class |-> "Group", v |-> g.v], g.i) ELSE Fail

\* complex_attribute: name argument_list ";"?   or a group, when "{" follows
ComplexAttributeOrGroup(ts, i, a) ==
    IF ~a.ok THEN Fail
    ELSE IF Kind(ts, a.i) = "{" THEN GroupStatement(ParseGroup(ts, i))
    ELSE Ok([class |-> "Attribute", v |-> Attribute(ts[i].s, List(a.v))],
            SkipSemicolon(ts, a.i))

\* ?statement: attribute | group | define
ParseStatement(ts, i) ==
    IF Kind(ts, i) = "DEFINE" THEN ParseDefine(ts, i)
    ELSE IF Kind(ts, i) # "NAME" THEN Fail
    ELSE IF Kind(ts, i + 1) = ":" THEN SimpleAttribute(ts, i, ParseValue(ts, i + 2))
    ELSE ComplexAttributeOrGroup(ts, i, ParseArgumentList(ts, i + 1))

\* group_body: "{" (statement)* "}"
BodyAfterStatement(ts, acc, st) ==
    IF st.ok THEN ParseGroupBody(ts, st.i, Append(acc, st.v)) ELSE Fail

ParseGroupBody(ts, i, acc) ==
    IF Kind(ts, i) = "}" THEN Ok(acc, i + 1)
    ELSE BodyAfterStatement(ts, acc, ParseStatement(ts, i))

RECURSIVE ParseFile(_, _, _)
\* file: group*
FileAfterGroup(ts, acc, g) ==
    IF g.ok THEN ParseFile(ts, g.i, Append(acc, g.v)) ELSE Fail

ParseFile(ts, i, acc) ==
    IF i > Len(ts) THEN Ok(acc, i) ELSE FileAfterGroup(ts, acc, ParseGroup(ts, i))

\* What the lark parser hands back: the transformed tree, or its exception.
Parsed(tree) ==
    IF tree.ok THEN [kind |-> "value", value |-> tree.v] ELSE [kind |-> "ParseError"]

\* parse_multi_liberty
parse_multi_liberty(data) == Parsed(ParseFile(Lex(data), 1, << >>))

\* parse_liberty, from top_groups = parse_multi_liberty(data)
ExactlyOneTop_First(top_groups) ==
    IF top_groups.kind # "value" THEN top_groups
    ELSE IF Len(top_groups.value) >= 1
         THEN [kind |-> "value", value |-> top_groups.value[1]]
    ELSE [kind |-> "Exception"]

ExactlyOneTop(top_groups) ==
    IF top_groups.kind # "value" THEN top_groups
    ELSE IF Len(top_groups.value) = 1
         THEN [kind |-> "value", value |-> top_groups.value[1]]
    ELSE [kind |-> "Exception"]

parse_liberty(data) == ExactlyOneTop(parse_multi_liberty(data))

(***************************************************************************)
(* The formatter: __str__ of the values and Group._format                  *)
(* (src/liberty/types.py lines 28-29, 106-161, 257-258, 275-276).          *)
(***************************************************************************)
\* EscapedString.__str__: '{}'.format(self.value)
EscapedString_str(v) == v.value

\* format_value(v) = str(v)
format_value(v) ==
    CASE v.t = "float" -> FormatFloat(v.v)
      [] v.t = "str" -> v.s
      [] v.t = "EscapedString" -> EscapedString_str(v)
      [] v.t = "WithUnit" -> FormatFloat(v.value) \o v.unit
      [] v.t = "ArithExpression" -> v.value
      [] v.t = "None" -> <<"N", "o", "n", "e">>

RECURSIVE Chain(_)
\* itertools.chain(*lists)
Chain(lists) == IF lists = << >> THEN << >> ELSE Head(lists) \o Chain(Tail(lists))

\* Define.__str__
Define_str(d) ==
    <<"d", "e", "f", "i", "n", "e", " ", "(", DQ>> \o d.attribute_name \o <<DQ, ",", " ", DQ>> \o d.group_name \o <<DQ, ",", " ", DQ>>
        \o d.attribute_type \o <<DQ, ")">>

Indent == <<" ", " ">>

\* The lines of one attribute in Group._format.
AttributeLines(attr) ==
    IF attr.value.t = "list"
    THEN LET formatted == [i \in 1..Len(attr.value.l) |-> format_value(attr.value.l[i])]
         IN IF \E i \in 1..Len(attr.value.l) : attr.value.l[i].t = "EscapedString"
            THEN <<attr.name \o <<" ", "(">>>>
                 \o [i \in 1..Len(formatted) |->
                        Indent \o formatted[i]
                            \o (IF i < Len(formatted) THEN <<",", " ", BS>> ELSE << >>)]
                 \o <<<<")", ";">>>>
            ELSE <<attr.name \o <<" ", "(">> \o Join(formatted, <<",", " ">>) \o <<")", ";">>>>
    ELSE <<attr.name \o <<":", " ">> \o format_value(attr.value) \o <<";">>>>

RECURSIVE Group_format(_)
\* Group._format
Group_format(g) ==
    LET define_lines == [i \in 1..Len(g.defines) |-> Define_str(g.defines[i]) \o <<";">>]
        sub_group_lines == [i \in 1..Len(g.groups) |-> Group_format(g.groups[i])]
        attr_lines == Chain([i \in 1..Len(g.attributes) |-> AttributeLines(g.attributes[i])])
        inner == define_lines \o attr_lines \o Chain(sub_group_lines)
        head == g.group_name \o <<" ", "(">>
                  \o Join([i \in 1..Len(g.args) |-> format_value(g.args[i])], <<",", " ">>)
                  \o <<")", " ", "{">>
    IN <<head>> \o [i \in 1..Len(inner) |-> Indent \o inner[i]] \o <<<<"}">>>>

\* Group.__str__
Group_str(g) == Join(Group_format(g), <<NL>>)

(***************************************************************************)
(* The group under query.                                                  *)
(***************************************************************************)
AttrNames == {"fanout_length", "slope"}
QueryNames == AttrNames \cup {"resistance"}
AttrValues == {Number(1000), List(<<Number(2000), Number(2981)>>)}
Defaults == {None, Number(0)}

\* Children as the parser builds them (an empty argument list is [None]) and
\* as the constructor builds them (args = None becomes []).
ChildMenu ==
    { Group("pin", <<Name("A")>>, << >>, << >>, << >>),
      Group("pin", <<EscapedString("B"), Name("A")>>, << >>, << >>, << >>),
      Group("pin", <<None>>, << >>, << >>, << >>),
      Group("timing", << >>, << >>, << >>, << >>) }
GroupTypes == {"pin", "timing"}
GroupArgs == {None, Name("A"), Name("B")}

RECURSIVE SeqsUpTo(_, _)
SeqsUpTo(S, n) ==
    IF n = 0 THEN {<< >>}
    ELSE LET shorter == SeqsUpTo(S, n - 1)
         IN shorter \cup {Append(q, x) : q \in shorter, x \in S}

NoCall == [op |-> "none"]

InitGroup ==
    /\ attributes \in SeqsUpTo({Attribute(n, v) : n \in AttrNames, v \in AttrValues}, 1)
    /\ groups \in SeqsUpTo(ChildMenu, MaxGroups)
    /\ args = << >>
    /\ defines = << >>
    /\ ret = NoCall
    /\ original = attributes
    /\ assigned = 0

\* An assignment that replaced the attribute of that name where there is one.
RECURSIVE setitem_replacing(_, _, _)
setitem_replacing(attrs, key, value) ==
    IF attrs = << >> THEN <<Attribute(key, value)>>
    ELSE IF Head(attrs).name = key THEN <<Attribute(key, value)>> \o Tail(attrs)
    ELSE <<Head(attrs)>> \o setitem_replacing(Tail(attrs), key, value)

\* Group.__setitem__: self.attributes.append(Attribute(key, value))
setitem(attrs, key, value) == Append(attrs, Attribute(key, value))

SetItem(key, value) ==
    /\ Len(attributes) < MaxAttrs
    /\ attributes' = setitem(attributes, key, value)
    /\ ret' = [op |-> "__setitem__", key |-> key, value |-> value]
    /\ assigned' = assigned + 1
    /\ UNCHANGED <<groups, args, defines, original, notGroup>>

GetAttributes(key) ==
    /\ ret' = [op |-> "get_attributes", key |-> key,
               out |-> get_attributes(attributes, key)]
    /\ UNCHANGED <<attributes, groups, args, defines, original, assigned, notGroup>>

GetAttribute(key, default) ==
    /\ ret' = [op |-> "get_attribute", key |-> key, default |-> default,
               out |-> get_attribute(attributes, key, default)]
    /\ UNCHANGED <<attributes, groups, args, defines, original, assigned, notGroup>>

GetGroups(type_name, argument) ==
    /\ ret' = [op |-> "get_groups", type_name |-> type_name, argument |-> argument,
               out |-> get_groups(groups, type_name, argument)]
    /\ UNCHANGED <<attributes, groups, args, defines, original, assigned, notGroup>>

GetGroup(type_name, argument) ==
    /\ ret' = [op |-> "get_group", type_name |-> type_name, argument |-> argument,
               out |-> get_group(groups, type_name, argument)]
    /\ UNCHANGED <<attributes, groups, args, defines, original, assigned, notGroup>>

NextGroup ==
    \/ \E k \in AttrNames, v \in AttrValues : SetItem(k, v)
    \/ \E k \in QueryNames : GetAttributes(k)
    \/ \E k \in QueryNames, d \in Defaults : GetAttribute(k, d)
    \/ \E ty \in GroupTypes, a \in GroupArgs : GetGroups(ty, a)
    \/ \E ty \in GroupTypes, a \in GroupArgs : GetGroup(ty, a)

IdleGroup ==
    /\ attributes = << >>
    /\ groups = << >>
    /\ args = << >>
    /\ defines = << >>
    /\ ret = NoCall
    /\ original = attributes
    /\ assigned = 0

(***************************************************************************)
(* Parsing and formatting liberty text: the sequence the tests run         *)
(* (src/liberty/parser.py lines 242-253, 484-486, 548-552).                *)
(***************************************************************************)
Unset == [kind |-> "unset"]

\* Number literals with the value each denotes, in thousandths.
NumberLiterals ==
    { [text |-> <<"1">>, milli |-> 1000],
      [text |-> <<"2", ".", "5", "e", "-", "1">>, milli |-> 250],
      [text |-> <<"1", "e", "-", "3">>, milli |-> 1],
      [text |-> <<"-", "1", ".", "5">>, milli |-> 0 - 1500] }
\* Letter runs that match the unit rule, and none.
UnitRuns == { << >>, <<"V">>, <<"n", "s">>, <<"e", "V">>, <<"E", "V">>, <<"A">> }
TopNames == { <<"l", "i", "b", "1">>, <<"l", "i", "b", "2">> }

\* The statements a library body is written from.
StatementText ==
    << <<" ", " ", "t", "i", "m", "e", "_", "u", "n", "i", "t", ":", " ", "1", "n", "s", ";", NL>>,
       <<" ", " ", "s", "t", "r", "i", "n", "g", ":", " ", DQ, "a", "s", "d", "f", DQ, ";", NL>>,
       <<" ", " ", "t", "a", "b", "l", "e", " ", ":", " ", DQ, "L", " ", "H", DQ, ";", NL>>,
       <<" ", " ", "s", "l", "o", "p", "e", " ", ":", " ", "5", ".", "0", "0", "0", "0", "0", "0", ";", NL>>,
       <<" ", " ", "v", "o", "l", "t", "a", "g", "e", "_", "m", "a", "p", "(", "V", "D", "D", ",", " ", "1", ".", "0", ")", ";", NL>>,
       <<" ", " ", "i", "n", "d", "e", "x", "_", "1", "(", DQ, "1", ",", " ", "2", DQ, ")", ";", NL>>,
       <<" ", " ", "d", "e", "f", "i", "n", "e", "(", "m", "y", "N", "e", "w", "A", "t", "t", "r", ",", " ", "i", "n", "t", "h", "i", "s", "g", "r", "o", "u", "p", ",", " ", "f", "l", "o", "a", "t", ")", ";", NL>>,
       <<" ", " ", "p", "i", "n", "(", "A", ")", " ", "{", NL, " ", " ", " ", " ", "d", "i", "r", "e", "c", "t", "i", "o", "n", " ", ":", " ", "i", "n", "p", "u", "t", ";", NL, " ", " ", "}", NL>>,
       <<" ", " ", "e", "m", "p", "t", "y", "(", ")", " ", "{", "}", NL>>,
       <<" ", " ", "v", "a", "l", "u", "e", "s", "(", DQ, "1", ",", " ", "2", DQ, ",", " ", BS, NL, " ", " ", " ", " ", DQ, "3", ",", " ", "4", DQ, ")", ";", NL>>,
       <<" ", " ", "n", "o", "t", "e", " ", ":", " ", DQ, "a", BS, NL, "b", BS, CR, NL, "c", DQ, ";", NL>> >>

\* Arithmetic expressions, each as the sequence of its tokens.
ArithmeticTokens ==
    { <<<<"V", "D", "D">>, <<"*">>, <<"1", ".", "1">>, <<"+">>, <<"0", ".", "5">>>>,
      <<<<"0", ".", "5">>, <<"*">>, <<"V", "D", "D">>>>,
      <<<<"V", "D", "D">>, <<"/">>, <<"0", ".", "5">>, <<"-">>, <<"A">>>>,
      <<<<"-">>, <<"V", "D", "D">>, <<"*">>, <<"1", ".", "1">>>>,
      <<<<"!">>, <<"A">>>> }
NameVimax == <<"v", "i", "m", "a", "x">>

Inputs ==
    {[family |-> "tops", names |-> ns] : ns \in SeqsUpTo(TopNames, MaxTops)}
    \cup {[family |-> "arith", tokens |-> ts] : ts \in ArithmeticTokens}
    \cup {[family |-> "unit", lit |-> l, unit |-> u] : l \in NumberLiterals, u \in UnitRuns}
    \cup {[family |-> "body", stmts |-> st] :
             st \in SeqsUpTo(1..Len(StatementText), MaxStmts)}

SourceText(g) ==
    CASE g.family = "tops" ->
           Chain([i \in 1..Len(g.names) |-> <<"l", "i", "b", "r", "a", "r", "y", "(">> \o g.names[i] \o <<")", "{", NL, "}", NL>>])
      [] g.family = "unit" ->
           <<"t", "e", "s", "t", "(", ")", " ", "{", NL, " ", " ", "i", "n", "t", "_", "v", "a", "l", "u", "e", " ", ":", " ">> \o g.lit.text \o g.unit \o <<" ", ";", NL, "}", NL>>
      [] g.family = "arith" ->
           <<"i", "n", "p", "u", "t", "_", "v", "o", "l", "t", "a", "g", "e", "(", "c", "m", "o", "s", ")", " ", "{", NL, " ", " ">>
               \o NameVimax \o <<" ", ":", " ">> \o Join(g.tokens, <<" ">>) \o <<" ", ";", NL, "}", NL>>
      [] g.family = "body" ->
           <<"l", "i", "b", "r", "a", "r", "y", "(", "t", "e", "s", "t", ")", " ", "{", NL>> \o Chain([i \in 1..Len(g.stmts) |-> StatementText[g.stmts[i]]])
               \o <<"}", NL>>

InitLiberty ==
    /\ given \in Inputs
    /\ src = SourceText(given)
    /\ lpc = "start"
    /\ multi = Unset
    /\ lib = Unset
    /\ str1 = Unset
    /\ lib2 = Unset
    /\ str2 = Unset

IdleLiberty ==
    /\ given = [family |-> "none"]
    /\ src = << >>
    /\ lpc = "start"
    /\ multi = Unset
    /\ lib = Unset
    /\ str1 = Unset
    /\ lib2 = Unset
    /\ str2 = Unset

\* tops = parse_multi_liberty(data)
ParseMulti ==
    /\ lpc = "start"
    /\ multi' = parse_multi_liberty(src)
    /\ lpc' = "multi"
    /\ UNCHANGED <<given, src, lib, str1, lib2, str2, notLiberty>>

\* library = parse_liberty(data)
ParseLiberty ==
    /\ lpc \in {"start", "multi"}
    /\ lib' = parse_liberty(src)
    /\ lpc' = "parsed"
    /\ UNCHANGED <<given, src, multi, str1, lib2, str2, notLiberty>>

\* str1 = str(library)
FormatLibrary ==
    /\ lpc = "parsed"
    /\ lib.kind = "value"
    /\ str1' = Group_str(lib.value)
    /\ lpc' = "formatted"
    /\ UNCHANGED <<given, src, multi, lib, lib2, str2, notLiberty>>

\* library2 = parse_liberty(str1)
ParseAgain ==
    /\ lpc = "formatted"
    /\ lib2' = parse_liberty(str1)
    /\ lpc' = "reparsed"
    /\ UNCHANGED <<given, src, multi, lib, str1, str2, notLiberty>>

\* str2 = str(library2)
FormatAgain ==
    /\ lpc = "reparsed"
    /\ lib2.kind = "value"
    /\ str2' = Group_str(lib2.value)
    /\ lpc' = "done"
    /\ UNCHANGED <<given, src, multi, lib, str1, lib2, notLiberty>>

NextLiberty ==
    \/ ParseMulti
    \/ ParseLiberty
    \/ FormatLibrary
    \/ ParseAgain
    \/ FormatAgain

(***************************************************************************)
(* sympy's boolean expressions, as parse_boolean_function builds them with *)
(* ~, &, | and ^ (src/liberty/boolean_functions.py lines 53-72).  And, Or  *)
(* and Xor keep their arguments as a set: nested applications of the same  *)
(* operator are flattened and equality does not see the order.             *)
(***************************************************************************)
Symbol(n) == [op |-> "Symbol", name |-> n, args |-> {}]
BooleanTrue == [op |-> "BooleanTrue", name |-> << >>, args |-> {}]
BooleanFalse == [op |-> "BooleanFalse", name |-> << >>, args |-> {}]

TheArg(exp) == CHOOSE a \in exp.args : TRUE

\* ~x
Not(x) ==
    CASE x.op = "Not" -> TheArg(x)
      [] x.op = "BooleanTrue" -> BooleanFalse
      [] x.op = "BooleanFalse" -> BooleanTrue
      [] OTHER -> [op |-> "Not", name |-> << >>, args |-> {x}]

Operands(x, op) == IF x.op = op THEN x.args ELSE {x}

Complementary(S) == \E x \in S : Not(x) \in S

OneOrMany(op, S) ==
    IF Cardinality(S) = 1 THEN CHOOSE a \in S : TRUE
    ELSE [op |-> op, name |-> << >>, args |-> S]

AndOf(S) ==
    IF BooleanFalse \in S \/ Complementary(S) THEN BooleanFalse
    ELSE IF S = {} THEN BooleanTrue
    ELSE OneOrMany("And", S)

OrOf(S) ==
    IF BooleanTrue \in S \/ Complementary(S) THEN BooleanTrue
    ELSE IF S = {} THEN BooleanFalse
    ELSE OneOrMany("Or", S)

XorOf(S) ==
    IF S = {} THEN BooleanFalse
    ELSE IF Cardinality(S) = 1 THEN CHOOSE a \in S : TRUE
    ELSE IF BooleanTrue \in S THEN Not(OneOrMany("Xor", S \ {BooleanTrue}))
    ELSE OneOrMany("Xor", S)

\* x & y
And(x, y) == AndOf((Operands(x, "And") \cup Operands(y, "And")) \ {BooleanTrue})

\* x | y
Or(x, y) == OrOf((Operands(x, "Or") \cup Operands(y, "Or")) \ {BooleanFalse})

\* x ^ y: an argument given twice cancels.
Xor(x, y) ==
    XorOf(((Operands(x, "Xor") \ Operands(y, "Xor"))
               \cup (Operands(y, "Xor") \ Operands(x, "Xor"))) \ {BooleanFalse})

(***************************************************************************)
(* BooleanFunctionTransformer (boolean_functions.py lines 53-72).          *)
(***************************************************************************)
RECURSIVE or_expr(_)
\* reduce(__or__, exprs)
or_expr(exprs) ==
    IF Len(exprs) = 1 THEN exprs[1]
    ELSE Or(or_expr(SubSeq(exprs, 1, Len(exprs) - 1)), exprs[Len(exprs)])

RECURSIVE and_expr(_)
\* reduce(__and__, exprs)
and_expr(exprs) ==
    IF Len(exprs) = 1 THEN exprs[1]
    ELSE And(and_expr(SubSeq(exprs, 1, Len(exprs) - 1)), exprs[Len(exprs)])

\* reduce(__xor__, exprs), for the two operands of xor_expr "^" xor_expr
xor_expr(l, r) == Xor(l, r)

not_expr(x) == Not(x)

name(n) == Symbol(n)

(***************************************************************************)
(* boolean_function_grammar (boolean_functions.py lines 30-50): the lexer,  *)
(* then the LALR parser.  Where the grammar lets the parser either go on   *)
(* with the rule at hand (shift) or close it (reduce), lark shifts.        *)
(***************************************************************************)
WS_INLINE == {" ", "\t"}
BooleanLiterals == {"+", "|", "&", "*", "^", "!", "'", "(", ")"}

\* CNAME: ("_"|LETTER) ("_"|LETTER|DIGIT)*
BooleanTokenAt(cs, i) ==
    IF cs[i] \in LETTER \cup {"_"}
    THEN Token("CNAME", cs, i, RunEnd(cs, i + 1, LETTER \cup DIGIT \cup {"_"}))
    ELSE IF cs[i] \in BooleanLiterals THEN Token(cs[i], cs, i, i + 1)
    ELSE Token("UnexpectedCharacters", cs, i, i + 1)

RECURSIVE BooleanLexFrom(_, _)
BooleanLexToken(cs, tok) ==
    IF tok.k = "UnexpectedCharacters" THEN <<tok>>
    ELSE <<tok>> \o BooleanLexFrom(cs, tok.end)

BooleanLexAt(cs, i) ==
    IF i > Len(cs) THEN << >> ELSE BooleanLexToken(cs, BooleanTokenAt(cs, i))

\* %ignore WS_INLINE
BooleanLexFrom(cs, i0) == BooleanLexAt(cs, RunEnd(cs, i0, WS_INLINE))

BooleanLex(cs) == BooleanLexFrom(cs, 1)

\* The tokens an atom starts with.
AtomStart == {"CNAME", "!", "("}

\* With an operand of and_expr read and the token k ahead, the parser goes on
\* with and_expr when k starts an atom: the operator of and_expr is optional.
\* (The operator of or_expr is optional too, but closing and_expr to read the
\* atom as an operand of or_expr would be a reduce.)
Juxtaposed_Never(k) == FALSE

Juxtaposed(k) == k \in AtomStart

RECURSIVE ParseOrExpr(_, _)
RECURSIVE ParseAtom(_, _)
RECURSIVE Postfix(_, _)
\* atom "'" -> not_expr, for each quote that follows
Postfix(ts, a) ==
    IF a.ok /\ Kind(ts, a.i) = "'" THEN Postfix(ts, Ok(not_expr(a.v), a.i + 1)) ELSE a

\* "!" atom -> not_expr; the atom has taken the quotes after it.
Negated(a) == IF a.ok THEN Ok(not_expr(a.v), a.i) ELSE Fail

\* "(" or_expr ")"
Closed(ts, e) == IF e.ok /\ Kind(ts, e.i) = ")" THEN Ok(e.v, e.i + 1) ELSE Fail

\* ?atom: CNAME -> name | "!" atom -> not_expr | atom "'" -> not_expr | "(" or_expr ")"
ParseAtom(ts, i) ==
    IF Kind(ts, i) = "CNAME" THEN Postfix(ts, Ok(name(ts[i].s), i + 1))
    ELSE IF Kind(ts, i) = "!" THEN Negated(ParseAtom(ts, i + 1))
    ELSE IF Kind(ts, i) = "(" THEN Postfix(ts, Closed(ts, ParseOrExpr(ts, i + 1)))
    ELSE Fail

RECURSIVE ParseXorExpr(_, _)
XorAfterRight(a, r) == IF r.ok THEN Ok(xor_expr(a.v, r.v), r.i) ELSE Fail

XorAfterAtom(ts, a) ==
    IF a.ok /\ Kind(ts, a.i) = "^" THEN XorAfterRight(a, ParseXorExpr(ts, a.i + 1)) ELSE a

\* ?xor_expr: atom | xor_expr "^" xor_expr
ParseXorExpr(ts, i) == XorAfterAtom(ts, ParseAtom(ts, i))

RECURSIVE AndMore(_, _, _)
AndAfterOperand(ts, exprs, x) ==
    IF x.ok THEN AndMore(ts, x.i, Append(exprs, x.v)) ELSE Fail

AndMore(ts, i, exprs) ==
    IF Kind(ts, i) \in {"&", "*"} THEN AndAfterOperand(ts, exprs, ParseXorExpr(ts, i + 1))
    ELSE IF Juxtaposed(Kind(ts, i)) THEN AndAfterOperand(ts, exprs, ParseXorExpr(ts, i))
    ELSE Ok(and_expr(exprs), i)

\* ?and_expr: xor_expr ([ "&" | "*" ]? xor_expr)*
ParseAndExpr(ts, i) == AndAfterOperand(ts, << >>, ParseXorExpr(ts, i))

RECURSIVE OrMore(_, _, _)
OrAfterOperand(ts, exprs, x) ==
    IF x.ok THEN OrMore(ts, x.i, Append(exprs, x.v)) ELSE Fail

OrMore(ts, i, exprs) ==
    IF Kind(ts, i) \in {"+", "|"} THEN OrAfterOperand(ts, exprs, ParseAndExpr(ts, i + 1))
    ELSE IF Kind(ts, i) \in AtomStart THEN OrAfterOperand(ts, exprs, ParseAndExpr(ts, i))
    ELSE Ok(or_expr(exprs), i)

\* ?or_expr: and_expr ([ "+" | "|" ] and_expr)*
ParseOrExpr(ts, i) == OrAfterOperand(ts, << >>, ParseAndExpr(ts, i))

\* ?start: or_expr, up to the end of the text
WholeText(ts, e) ==
    IF e.ok /\ e.i > Len(ts) THEN [kind |-> "value", value |-> e.v]
    ELSE [kind |-> "ParseError"]

ParseStart(ts) == WholeText(ts, ParseOrExpr(ts, 1))

\* parse_boolean_function
parse_boolean_function(data) == ParseStart(BooleanLex(data))

(***************************************************************************)
(* format_boolean_function (boolean_functions.py lines 104-132).           *)
(***************************************************************************)
RECURSIVE ordered(_)
\* exp.args: sympy hands the arguments out in a fixed order.
ordered(S) ==
    IF S = {} THEN << >>
    ELSE <<CHOOSE a \in S : TRUE>> \o ordered(S \ {CHOOSE a \in S : TRUE})

RECURSIVE format(_)
FormatAll(exps) == [i \in 1..Len(exps) |-> format(exps[i])]

\* _format(exp)
format(exp) ==
    CASE exp.op = "Symbol" -> exp.name
      [] exp.op = "Not" -> <<"!">> \o format(TheArg(exp))
      [] exp.op = "Or" ->
           <<"(">> \o Join(FormatAll(ordered(exp.args)), <<" ", "+", " ">>) \o <<")">>
      [] exp.op = "And" -> Join(FormatAll(ordered(exp.args)), <<" ", "&", " ">>)
      [] exp.op = "Xor" ->
           <<"(">> \o Join(FormatAll(ordered(exp.args)), <<" ", "^", " ">>) \o <<")">>

\* s = '({})'.format(_format(function)); the s.replace(...) calls that follow
\* drop their results.  A constant is none of the supported types.
format_boolean_function(fn) ==
    IF fn.op \in {"BooleanTrue", "BooleanFalse"} THEN [kind |-> "AssertionError"]
    ELSE [kind |-> "value", value |-> <<"(">> \o format(fn) \o <<")">>]

(***************************************************************************)
(* Parsing a boolean function, and formatting one and parsing the text     *)
(* (boolean_functions.py lines 94-101, 135-146).                           *)
(***************************************************************************)
BooleanNames == <<"A", "B", "C", "D", "E", "F", "G", "H", "I">>
Sym(i) == Symbol(<<BooleanNames[i]>>)

\* The ways to write an operand (plain, "!" before it, "'" after it) and the
\* ways to join two operands (" " stands for writing them side by side).
Negations == {"", "!", "'"}
Operators == {"+", "|", "&", "*", "^", " "}

\* Texts without parentheses: operand i is the i-th name.
OperatorTexts ==
    UNION { { [family |-> "operators", neg |-> ng, ops |-> os, tight |-> t] :
                ng \in [1..n -> Negations], os \in [1..(n - 1) -> Operators],
                t \in BOOLEAN }
            : n \in 1..MaxOperands }

OperandText(g, i) ==
    (IF g.neg[i] = "!" THEN <<"!">> ELSE << >>) \o <<BooleanNames[i]>>
        \o (IF g.neg[i] = "'" THEN <<"'">> ELSE << >>)

OperatorText(op, tight) ==
    IF op = " " THEN <<" ">> ELSE IF tight THEN <<op>> ELSE <<" ", op, " ">>

\* f_str of test_parse_boolean_function
ExampleText ==
    <<"A", "'", " ", "+", " ", "B", " ", "+", " ", "C", " ", "&", " ", "D", " ", "+", " ",
      "E", " ", "^", " ", "F", " ", "*", " ", "G", " ", "|", " ", "(", "H", " ", "+", " ",
      "I", ")">>

\* Texts with the constants 0 and 1, and the function each denotes.
ConstantTexts ==
    { [family |-> "constants", text |-> <<"0">>, denotes |-> BooleanFalse],
      [family |-> "constants", text |-> <<"1">>, denotes |-> BooleanTrue],
      [family |-> "constants", text |-> <<"A", " ", "&", " ", "1">>, denotes |-> Sym(1)],
      [family |-> "constants", text |-> <<"!", "0", " ", "+", " ", "B">>,
       denotes |-> BooleanTrue] }

BooleanText(g) ==
    IF g.family = "example" THEN ExampleText
    ELSE IF g.family = "constants" THEN g.text
    ELSE Chain([k \in 1..(2 * Len(g.neg) - 1) |->
                   IF k % 2 = 1 THEN OperandText(g, (k + 1) \div 2)
                   ELSE OperatorText(g.ops[k \div 2], g.tight)])

\* Expressions as the operators ~, &, | and ^ build them from A, B and C.
Grow(S) ==
    S \cup {Not(x) : x \in S}
      \cup {And(x, Sym(j)) : x \in S, j \in 1..3}
      \cup {Or(x, Sym(j)) : x \in S, j \in 1..3}
      \cup {Xor(x, Sym(j)) : x \in S, j \in 1..3}

RECURSIVE Nested(_)
Nested(d) == IF d = 0 THEN {Sym(j) : j \in 1..3} ELSE Grow(Nested(d - 1))

\* f of test_format_boolean_function: ~a | b | c & d | (e ^ f) & g | (h | i)
ExampleFunction ==
    Or(Or(Or(Or(Not(Sym(1)), Sym(2)), And(Sym(3), Sym(4))), And(Xor(Sym(5), Sym(6)), Sym(7))),
       Or(Sym(8), Sym(9)))

IdleBoolean ==
    /\ bgiven = [family |-> "none"]
    /\ bpc = "idle"
    /\ function = Unset
    /\ f_str = Unset
    /\ f_parsed = Unset

\* A text to parse.
InitBooleanText ==
    /\ bgiven \in OperatorTexts \cup {[family |-> "example"]} \cup ConstantTexts
    /\ bpc = "text"
    /\ function = Unset
    /\ f_str = [kind |-> "value", value |-> BooleanText(bgiven)]
    /\ f_parsed = Unset

\* An expression to format.
InitBooleanFunction ==
    /\ bgiven = [family |-> "function"]
    /\ bpc = "function"
    /\ function \in Nested(MaxNesting) \cup {ExampleFunction}
    /\ f_str = Unset
    /\ f_parsed = Unset

\* s = format_boolean_function(f)
FormatBoolean ==
    /\ bpc = "function"
    /\ f_str' = format_boolean_function(function)
    /\ bpc' = "text"
    /\ UNCHANGED <<bgiven, function, f_parsed, notBoolean>>

\* f_parsed = parse_boolean_function(s)
ParseBoolean ==
    /\ bpc = "text"
    /\ f_str.kind = "value"
    /\ f_parsed' = parse_boolean_function(f_str.value)
    /\ bpc' = "parsed"
    /\ UNCHANGED <<bgiven, function, f_str, notBoolean>>

(***************************************************************************)
(* lib_to_json (src/LibToJson.py).  A dict is a function from its keys; a  *)
(* call either gives a value or raises.                                    *)
(***************************************************************************)
Value(v) == [kind |-> "value", value |-> v]
Raised(e) == [kind |-> e]

dict(f) == [t |-> "dict", d |-> f]
EmptyDict == dict([k \in {} |-> None])

\* m.get(k)
Get(m, k) == IF k \in DOMAIN m.d THEN m.d[k] ELSE None

\* m[k] = v
Store(m, k, v) == dict([x \in DOMAIN m.d \cup {k} |-> IF x = k THEN v ELSE m.d[x]])

CompAttribute == <<"c", "o", "m", "p", "_", "a", "t", "t", "r", "i", "b", "u", "t", "e", ",">>
KeyDefine == <<"d", "e", "f", "i", "n", "e">>
KeyCells == <<"c", "e", "l", "l", "s">>
KeyCell == <<"c", "e", "l", "l">>

\* attr_cnt[n] after the counting loop
attr_cnt(attrs, n) == Cardinality({i \in 1..Len(attrs) : attrs[i].name = n})

\* m[k].append(v), after m[k] = list() when m.get(k) is None
AppendAt(m, k, v) ==
    IF Get(m, k) = None THEN Store(m, k, List(<<v>>))
    ELSE Store(m, k, List(Append(Get(m, k).l, v)))

\* The body of the loop over the attributes of a group.
StoreAttribute(m, attrs, attr) ==
    IF attr_cnt(attrs, attr.name) = 1 THEN Store(m, attr.name, attr.value)
    ELSE AppendAt(m, CompAttribute \o attr.name, attr.value)

RECURSIVE StoreAttributesFrom(_, _, _)
StoreAttributesFrom(m, attrs, i) ==
    IF i > Len(attrs) THEN m
    ELSE StoreAttributesFrom(StoreAttribute(m, attrs, attrs[i]), attrs, i + 1)

\* The two loops over the attributes of a group, into the mapping m.
StoreAttributes(m, attrs) == StoreAttributesFrom(m, attrs, 1)

KeyAttributeName == <<"a", "t", "t", "r", "i", "b", "u", "t", "e", "_", "n", "a", "m", "e">>
KeyAttributeType == <<"a", "t", "t", "r", "i", "b", "u", "t", "e", "_", "t", "y", "p", "e">>
KeyGroupName == <<"g", "r", "o", "u", "p", "_", "n", "a", "m", "e">>

\* dict(attribute_name=..., attribute_type=..., group_name=...)
DefineDict(d) ==
    Store(Store(Store(EmptyDict, KeyAttributeName, Name(d.attribute_name)),
                KeyAttributeType, Name(d.attribute_type)),
          KeyGroupName, Name(d.group_name))

\* g.args[0].value: an EscapedString, a WithUnit and an ArithExpression have
\* a value, no other argument has.
ArgValue(g) ==
    IF g.args = << >> THEN Raised("IndexError")
    ELSE IF g.args[1].t \in {"EscapedString", "WithUnit", "ArithExpression"}
         THEN Value(g.args[1])
    ELSE Raised("AttributeError")

\* g.group_name + ',' + g.args[0].value
CompositeKeyOf(g, v) ==
    IF v.kind # "value" THEN v
    ELSE IF v.value.t = "WithUnit" THEN Raised("TypeError")
    ELSE Value(g.group_name \o <<",">> \o v.value.value)

CompositeKey(g) == CompositeKeyOf(g, ArgValue(g))

\* for group in library.groups: if group.group_name != 'cell' (lines 35-52)
RECURSIVE OtherGroups(_, _, _)
OtherGroupStored(r, g, key) ==
    IF key.kind # "value" THEN key
    ELSE Value(Store(r.value, key.value, StoreAttributes(EmptyDict, g.attributes)))

OtherGroups(r, gs, i) ==
    IF r.kind # "value" \/ i > Len(gs) THEN r
    ELSE IF gs[i].group_name = KeyCell THEN OtherGroups(r, gs, i + 1)
    ELSE OtherGroups(OtherGroupStored(r, gs[i], CompositeKey(gs[i])), gs, i + 1)

\* for gr2 in gr1.groups (lines 113-140), into the mapping of gr1
RECURSIVE Gr2Groups(_, _, _)
Gr2Stored(r, gr2, key) ==
    IF key.kind # "value" THEN key
    ELSE Value(Store(r.value, key.value, StoreAttributes(EmptyDict, gr2.attributes)))

Gr2Groups(r, gs, i) ==
    IF r.kind # "value" \/ i > Len(gs) THEN r
    ELSE Gr2Groups(Gr2Stored(r, gs[i], CompositeKey(gs[i])), gs, i + 1)

\* for gr1 in group.groups (lines 110-112): the mapping of gr1 starts as
\* dict() and takes the gr2 groups only.
RECURSIVE Gr1Groups(_, _, _)
Gr1Stored(r, gr1, m) ==
    IF m.kind # "value" THEN m ELSE Value(Store(r.value, gr1.group_name, m.value))

Gr1Groups(r, gs, i) ==
    IF r.kind # "value" \/ i > Len(gs) THEN r
    ELSE Gr1Groups(Gr1Stored(r, gs[i], Gr2Groups(Value(EmptyDict), gs[i].groups, 1)),
                   gs, i + 1)

\* The child of a cell whose first argument is None (lines 72-90): its
\* mapping is appended to the list under its group name.
UnnamedStored(r, g) ==
    IF Get(r.value, g.group_name) # None /\ Get(r.value, g.group_name).t # "list"
    THEN Raised("AttributeError")
    ELSE Value(AppendAt(r.value, g.group_name, StoreAttributes(EmptyDict, g.attributes)))

\* The child of a cell with a first argument (lines 92-140).
NamedStored(r, key, m) ==
    IF key.kind # "value" THEN key
    ELSE IF m.kind # "value" THEN m
    ELSE Value(Store(r.value, key.value, m.value))

NamedMapping(g) ==
    Gr1Groups(Value(StoreAttributes(EmptyDict, g.attributes)), g.groups, 1)

\* for group in cell.groups (lines 70-140), into the mapping of the cell
RECURSIVE CellGroups(_, _, _)
CellGroups(r, gs, i) ==
    IF r.kind # "value" \/ i > Len(gs) THEN r
    ELSE IF gs[i].args = << >> THEN Raised("IndexError")
    ELSE IF gs[i].args[1] = None THEN CellGroups(UnnamedStored(r, gs[i]), gs, i + 1)
    ELSE CellGroups(NamedStored(r, CompositeKey(gs[i]), NamedMapping(gs[i])), gs, i + 1)

CellMapping(cell) ==
    CellGroups(Value(StoreAttributes(EmptyDict, cell.attributes)), cell.groups, 1)

\* for cell in library.groups: if cell.group_name == 'cell' (lines 54-140)
RECURSIVE Cells(_, _, _)
\* cell.args[0].value as a key of JSON_dict['cells']: a float key is written
\* by json.dump as its text.
CellKey(arg) == IF arg.t = "WithUnit" THEN FormatFloat(arg.value) ELSE arg.value

CellStored(r, key, m) ==
    IF key.kind # "value" THEN key
    ELSE IF m.kind # "value" THEN m
    ELSE Value(Store(r.value, KeyCells,
                     Store(Get(r.value, KeyCells), CellKey(key.value), m.value)))

Cells(r, gs, i) ==
    IF r.kind # "value" \/ i > Len(gs) THEN r
    ELSE IF gs[i].group_name # KeyCell THEN Cells(r, gs, i + 1)
    ELSE Cells(CellStored(r, ArgValue(gs[i]), CellMapping(gs[i])), gs, i + 1)

WithCells(r, library) ==
    IF r.kind # "value" THEN r
    ELSE Cells(Value(Store(r.value, KeyCells, EmptyDict)), library.groups, 1)

\* JSON_dict when lib_to_json calls json.dump (lines 16-140)
JSON_dict(library) ==
    WithCells(OtherGroups(Value(Store(StoreAttributes(EmptyDict, library.attributes),
                                      KeyDefine,
                                      List([i \in 1..Len(library.defines) |->
                                               DefineDict(library.defines[i])]))),
                          library.groups, 1),
              library)

\* What json.dump(JSON_dict, ..., default=encode_escaped_string) can write:
\* encode_escaped_string raises TypeError for all but an EscapedString.
RECURSIVE Serializable(_)
Serializable(v) ==
    CASE v.t = "dict" -> \A k \in DOMAIN v.d : Serializable(v.d[k])
      [] v.t = "list" -> \A i \in 1..Len(v.l) : Serializable(v.l[i])
      [] v.t \in {"float", "str", "EscapedString", "None"} -> TRUE
      [] OTHER -> FALSE

RECURSIVE Encode(_)
\* The JSON document written for v.
Encode(v) ==
    CASE v.t = "dict" -> [t |-> "object", members |-> [k \in DOMAIN v.d |-> Encode(v.d[k])]]
      [] v.t = "list" -> [t |-> "array", items |-> [i \in 1..Len(v.l) |-> Encode(v.l[i])]]
      [] v.t = "float" -> [t |-> "number", v |-> v.v]
      [] v.t = "str" -> [t |-> "string", s |-> v.s]
      [] v.t = "EscapedString" -> [t |-> "string", s |-> v.value]
      [] v.t = "None" -> [t |-> "null"]

json_dump(r) ==
    IF r.kind # "value" THEN r
    ELSE IF Serializable(r.value) THEN Value(Encode(r.value))
    ELSE Raised("TypeError")

Converted(library) ==
    IF library.kind # "value" THEN library ELSE json_dump(JSON_dict(library.value))

\* lib_to_json, from the text of liberty_file to the document in json_file
lib_to_json(text) == Converted(parse_liberty(text))

(***************************************************************************)
(* Converting a liberty file to JSON.                                      *)
(***************************************************************************)
\* The attributes a group of the file is written with: a name, the text of
\* the value and the value.
JsonAttributes ==
    { [name |-> n, text |-> v.text, value |-> v.value] :
        n \in {<<"a">>, <<"b">>},
        v \in { [text |-> <<"1">>, value |-> Number(1000)],
                [text |-> <<"2">>, value |-> Number(2000)],
                [text |-> <<DQ, "x", DQ>>, value |-> EscapedString(<<"x">>)],
                [text |-> <<"1", "n", "s">>, value |-> WithUnit(1000, <<"n", "s">>)] } }

\* The group of the file that carries the attributes: the library, a child
\* of the library with and without an argument (child, child0), a cell, a
\* child of the cell without and with an argument (unnamed, named), a group
\* in the named child (gr1) and a group in gr1 with and without an argument
\* (gr2, gr2_0).
Places == {"library", "child", "child0", "cell", "unnamed", "named", "gr1", "gr2", "gr2_0"}

\* An input names the place, the attributes written there, whether the first
\* arguments of the groups are written as quoted strings or as barewords, and
\* whether the group at the place is followed by an empty sibling of the same
\* name and argument.
JsonInputs ==
    {g \in [place : Places, attrs : SeqsUpTo(JsonAttributes, MaxJsonAttrs),
            quoted : BOOLEAN, twice : BOOLEAN] :
        g.twice => g.place # "library"}

AttributesText(attrs) ==
    Chain([i \in 1..Len(attrs) |->
              attrs[i].name \o <<" ", ":", " ">> \o attrs[i].text \o <<";", NL>>])

\* The attributes of the group at place p, and the groups in it that lead to
\* the place the input names.
At(g, p) == IF g.place = p THEN AttributesText(g.attrs) ELSE << >>

\* A first argument as the input writes it.
ArgText(g, arg) == IF g.quoted THEN <<DQ>> \o arg \o <<DQ>> ELSE arg

\* The group at place p, alone or followed by an empty sibling that is
\* written with the same header.
Written(g, p, header, body) ==
    header \o body \o <<"}", NL>>
        \o (IF g.twice /\ g.place = p THEN header \o <<"}", NL>> ELSE << >>)

NameCellRise == <<"c", "e", "l", "l", "_", "r", "i", "s", "e">>
NameTiming == <<"t", "i", "m", "i", "n", "g">>
NamePin == <<"p", "i", "n">>
NameTestCell == <<"t", "e", "s", "t", "_", "c", "e", "l", "l">>
NameOperatingConditions ==
    <<"o", "p", "e", "r", "a", "t", "i", "n", "g", "_", "c", "o", "n", "d", "i", "t", "i", "o", "n", "s">>

Gr2Text(g) ==
    IF g.place = "gr2"
    THEN Written(g, "gr2", NameCellRise \o <<"(">> \o ArgText(g, <<"t">>) \o <<")", " ", "{", NL>>,
                 At(g, "gr2"))
    ELSE IF g.place = "gr2_0"
    THEN Written(g, "gr2_0", NameCellRise \o <<"(", ")", " ", "{", NL>>, At(g, "gr2_0"))
    ELSE << >>

Gr1Text(g) ==
    IF g.place \in {"gr1", "gr2", "gr2_0"}
    THEN Written(g, "gr1", NameTiming \o <<"(", ")", " ", "{", NL>>,
                 At(g, "gr1") \o Gr2Text(g))
    ELSE << >>

NamedText(g) ==
    IF g.place \in {"named", "gr1", "gr2", "gr2_0"}
    THEN Written(g, "named", NamePin \o <<"(">> \o ArgText(g, <<"p">>) \o <<")", " ", "{", NL>>,
                 At(g, "named") \o Gr1Text(g))
    ELSE << >>

UnnamedText(g) ==
    IF g.place = "unnamed"
    THEN Written(g, "unnamed", NameTestCell \o <<"(", ")", " ", "{", NL>>, At(g, "unnamed"))
    ELSE << >>

CellText(g) ==
    IF g.place \in {"cell", "unnamed", "named", "gr1", "gr2", "gr2_0"}
    THEN Written(g, "cell", KeyCell \o <<"(">> \o ArgText(g, <<"c">>) \o <<")", " ", "{", NL>>,
                 At(g, "cell") \o UnnamedText(g) \o NamedText(g))
    ELSE << >>

ChildText(g) ==
    IF g.place = "child"
    THEN Written(g, "child",
                 NameOperatingConditions \o <<"(">> \o ArgText(g, <<"o", "c">>) \o <<")", " ", "{", NL>>,
                 At(g, "child"))
    ELSE IF g.place = "child0"
    THEN Written(g, "child0", NameOperatingConditions \o <<"(", ")", " ", "{", NL>>,
                 At(g, "child0"))
    ELSE << >>

LibraryText(g) ==
    <<"l", "i", "b", "r", "a", "r", "y", "(", DQ, "l", DQ, ")", " ", "{", NL>> \o At(g, "library") \o ChildText(g) \o CellText(g) \o <<"}", NL>>

IdleJson ==
    /\ jgiven = [place |-> "none"]
    /\ liberty_file = << >>
    /\ json_file = Unset

InitJson ==
    /\ jgiven \in JsonInputs
    /\ liberty_file = LibraryText(jgiven)
    /\ json_file = Unset

\* lib_to_json(liberty_file, json_file)
LibToJson ==
    /\ json_file = Unset
    /\ json_file' = lib_to_json(liberty_file)
    /\ UNCHANGED <<jgiven, liberty_file, notJson>>

(***************************************************************************)
(* Arrays (src/liberty/types.py lines 200-213).  liberty/arrays.py is not  *)
(* among the sources: strings_to_array and array_to_strings follow the     *)
(* array codec of the specification (section 4.E).  An array is the        *)
(* sequence of its rows, a 1-D array is one row; numbers are thousandths.  *)
(***************************************************************************)
RECURSIVE Split(_, _)
\* s.split(sep)
Split(s, sep) ==
    IF FindFrom(s, sep, 1) = 0 THEN <<s>>
    ELSE <<SubSeq(s, 1, FindFrom(s, sep, 1) - 1)>>
             \o Split(SubSeq(s, FindFrom(s, sep, 1) + Len(sep), Len(s)), sep)

RECURSIVE Strip(_)
\* s.strip()
Strip(s) ==
    IF s # << >> /\ s[1] \in WS \cup {NL, CR} THEN Strip(Tail(s))
    ELSE IF s # << >> /\ s[Len(s)] \in WS \cup {NL, CR} THEN Strip(SubSeq(s, 1, Len(s) - 1))
    ELSE s

\* A row string is comma-split, trimmed and parsed as numbers.
RowOf(cells) == [j \in 1..Len(cells) |-> float(Strip(cells[j]))]

RowsOf(strs) == [i \in 1..Len(strs) |-> RowOf(Split(strs[i], <<",">>))]

Rectangular(rows) == \A i \in 1..Len(rows) : Len(rows[i]) = Len(rows[1])

\* strings_to_array: the rows must share their length.
ArrayOf(rows) == IF Rectangular(rows) THEN Value(rows) ELSE Raised("ShapeMismatch")

strings_to_array(strs) == ArrayOf(RowsOf(strs))

\* array_to_strings: one string per row, the numbers separated by commas.
array_to_strings(array) ==
    [i \in 1..Len(array) |->
        Join([j \in 1..Len(array[i]) |-> FormatFloat(array[i][j])], <<",", " ">>)]

\* str_array = [s.value for s in str_array]; strings_to_array(str_array)
ArrayFrom(item) ==
    IF item.kind = "AssertionError" THEN Raised("AssertionError")
    ELSE IF item.value.t = "str" THEN Raised("AttributeError")
    ELSE IF item.value.t # "list" THEN Raised("TypeError")
    ELSE IF \E i \in 1..Len(item.value.l) : item.value.l[i].t # "EscapedString"
         THEN Raised("AttributeError")
    ELSE strings_to_array([i \in 1..Len(item.value.l) |-> item.value.l[i].value])

\* Group.get_array, from str_array = self[key]
get_array(attrs, key) == ArrayFrom(get_attribute(attrs, key, None))

\* str_array = [EscapedString(s) for s in str_array]
Escaped(strs) == List([i \in 1..Len(strs) |-> EscapedString(strs[i])])

\* Group.set_array
set_array(attrs, key, value) == setitem(attrs, key, Escaped(array_to_strings(value)))

ArrayNames == {"values", "index_1"}
Arrays == { << <<1000, 2500>> >>, << <<1000, 2000>>, <<3000, 4000>> >> }

\* A group as parsed from a table: at most one attribute, holding an array.
InitArray ==
    /\ attributes \in SeqsUpTo({Attribute(n, Escaped(array_to_strings(a))) :
                                    n \in ArrayNames, a \in Arrays}, 1)
    /\ groups = << >>
    /\ args = << >>
    /\ defines = << >>
    /\ ret = NoCall
    /\ original = attributes
    /\ assigned = 0

SetArray(key, value) ==
    /\ Len(attributes) < MaxAttrs
    /\ attributes' = set_array(attributes, key, value)
    /\ ret' = [op |-> "set_array", key |-> key, value |-> value]
    /\ assigned' = assigned + 1
    /\ UNCHANGED <<groups, args, defines, original, notGroup>>

GetArray(key) ==
    /\ ret' = [op |-> "get_array", key |-> key, out |-> get_array(attributes, key)]
    /\ UNCHANGED <<attributes, groups, args, defines, original, assigned, notGroup>>

(***************************************************************************)
(* Assignments to a group (src/liberty/types.py lines 188-198, 210-213,    *)
(* 229-236): group[key] = value, set_array and set_boolean_function, read  *)
(* back with group[key] and get_array.                                     *)
(***************************************************************************)
\* self[key] = '"{}"'.format(f_str)
Quoted(text) == Name(<<DQ>> \o text \o <<DQ>>)

\* Group.set_boolean_function: a function that cannot be formatted raises
\* before anything is assigned.
set_boolean_function(attrs, key, f) ==
    IF f.kind # "value" THEN attrs ELSE setitem(attrs, key, Quoted(f.value))

\* f_str = self.get(key); None when absent, else parse_boolean_function(f_str.value)
FunctionFrom(item) ==
    IF item.kind = "AssertionError" THEN Raised("AssertionError")
    ELSE IF item.value.t = "None" THEN Value(None)
    ELSE IF item.value.t \in {"EscapedString", "ArithExpression"}
         THEN parse_boolean_function(item.value.value)
    ELSE Raised("AttributeError")

\* Group.get_boolean_function
get_boolean_function(attrs, key) == FunctionFrom(get_attribute(attrs, key, None))

AssignedNames == {"values", "function"}
AssignedValues == {Number(1000)}
AssignedFunctions == {Sym(1), And(Sym(1), Sym(2)), BooleanTrue}
AssignedArrays == { << <<1000, 2500>> >> }
\* The value of a function attribute as the parser stores it.
ParsedFunctions == {EscapedString(format_boolean_function(And(Sym(1), Sym(2))).value)}

\* A group as parsed, with an argument, a define, a child and at most one
\* attribute.
InitAssign ==
    /\ attributes \in SeqsUpTo({Attribute(n, v) : n \in AssignedNames,
                                     v \in AssignedValues \cup ParsedFunctions
                                              \cup {Escaped(array_to_strings(a)) : a \in AssignedArrays}}, 1)
    /\ groups = <<Group("timing", <<None>>, << >>, << >>, << >>)>>
    /\ args = <<Name("A")>>
    /\ defines = <<Define("slope", "pin", "float")>>
    /\ ret = NoCall
    /\ original = attributes
    /\ assigned = 0

SetBooleanFunction(key, boolean) ==
    /\ Len(attributes) < MaxAttrs
    /\ attributes' = set_boolean_function(attributes, key, format_boolean_function(boolean))
    /\ ret' = [op |-> "set_boolean_function", key |-> key, boolean |-> boolean,
               out |-> format_boolean_function(boolean).kind]
    /\ assigned' = IF format_boolean_function(boolean).kind = "value" THEN assigned + 1 ELSE assigned
    /\ UNCHANGED <<groups, args, defines, original, notGroup>>

GetBooleanFunction(key) ==
    /\ ret' = [op |-> "get_boolean_function", key |-> key,
               out |-> get_boolean_function(attributes, key)]
    /\ UNCHANGED <<attributes, groups, args, defines, original, assigned, notGroup>>

GetItem(item) ==
    /\ ret' = [op |-> "__getitem__", key |-> item, out |-> get_attribute(attributes, item, None)]
    /\ UNCHANGED <<attributes, groups, args, defines, original, assigned, notGroup>>

(***************************************************************************)
(* The selectors (src/liberty/types.py lines 326-419).  A KeyError carries *)
(* the key that missed and the values its message lists.                   *)
(***************************************************************************)
KeyError(key, available) == [kind |-> "KeyError", key |-> key, available |-> available]

\* {g.args[0] for g in found}: the first arguments must be hashable, which an
\* EscapedString and a WithUnit (they define __eq__ only) are not.
FirstArguments(found) ==
    IF \E i \in 1..Len(found) : found[i].args = << >> THEN Raised("IndexError")
    ELSE IF \E i \in 1..Len(found) : found[i].args[1].t \in {"EscapedString", "WithUnit"}
         THEN Raised("TypeError")
    ELSE Value({found[i].args[1] : i \in 1..Len(found)})

\* sorted(available) fails on None next to a str.
Sorted(key, available) ==
    IF None \in available /\ available # {None} THEN Raised("TypeError")
    ELSE KeyError(key, available)

Selected(gs, type_name, wanted, available) ==
    IF available.kind # "value" THEN available
    ELSE IF Name(wanted) \in available.value THEN get_group(gs, type_name, Name(wanted))
    ELSE Sorted(type_name, available.value)

\* select_cell(library, cell_name), library.groups given
select_cell(gs, cell_name) ==
    Selected(gs, "cell", cell_name, FirstArguments(get_groups(gs, "cell", None)))

\* select_pin(cell, pin_name), cell.groups given
select_pin(gs, pin_name) ==
    Selected(gs, "pin", pin_name, FirstArguments(get_groups(gs, "pin", None)))

\* key in g (Group.__contains__)
Contains(g, key) == Len(get_attributes(g.attributes, key)) > 0

\* g[key].value, for an attribute that occurs once and holds a quoted string
ItemValue(g, key) == get_attribute(g.attributes, key, None).value.value

\* [g for g in gs if key in g and g[key].value == v]
Matching(gs, key, v) ==
    Filter(gs, {i \in 1..Len(gs) : Contains(gs[i], key) /\ ItemValue(gs[i], key) = v})

\* {g[key].value for g in gs if key in g}
Candidates(gs, key) ==
    {ItemValue(gs[i], key) : i \in {j \in 1..Len(gs) : Contains(gs[j], key)}}

\* {g[key].value for g in gs}
AllValues(gs, key) == {ItemValue(gs[i], key) : i \in 1..Len(gs)}

\* The selection by timing_type and the return (lines 403-419); the values
\* listed on a miss are those of timing_groups as just filtered.
TypeSelected(found) ==
    IF found = << >> THEN KeyError("timing_type", AllValues(found, "timing_type"))
    ELSE Value(found[1])

AfterWhen(found, timing_type) ==
    IF timing_type = None THEN Value(found[1])
    ELSE TypeSelected(Matching(found, "timing_type", timing_type.s))

\* The selection by `when` (lines 387-401); the values listed on a miss are
\* those of timing_groups as just filtered.
WhenSelected(found, timing_type) ==
    IF found = << >> THEN KeyError("when", Candidates(found, "when"))
    ELSE AfterWhen(found, timing_type)

\* The selection by related_pin (lines 370-385).
RelatedSelected(timing, found, when, timing_type) ==
    IF found = << >> THEN KeyError("related_pin", Candidates(timing, "related_pin"))
    ELSE IF when = None THEN AfterWhen(found, timing_type)
    ELSE WhenSelected(Matching(found, "when", when.s), timing_type)

TimingGroups(gs, timing, related_pin, when, timing_type) ==
    RelatedSelected(timing, Matching(timing, "related_pin", related_pin), when, timing_type)

\* select_timing_group(pin, related_pin, when, timing_type), pin.groups given
select_timing_group(gs, related_pin, when, timing_type) ==
    TimingGroups(gs, get_groups(gs, "timing", None), related_pin, when, timing_type)

\* The groups the selectors are run on: timing groups with a related_pin and,
\* some, a `when` and a timing_type; pins and cells with a bareword or a
\* quoted name.
RelatedPins == {"A", "B"}
Whens == {"C", "D"}
TimingTypes == {"rising_edge", "falling_edge"}
Optional(key, v) == IF v = None THEN << >> ELSE <<Attribute(key, EscapedString(v.s))>>
TimingMenu ==
    { Group("timing", <<None>>,
            <<Attribute("related_pin", EscapedString(r))>>
                \o Optional("when", w) \o Optional("timing_type", ty),
            << >>, << >>) :
        r \in {"A"}, w \in {None, Name("C")}, ty \in {None, Name("rising_edge")} }
NamedMenu ==
    { Group("pin", <<Name("A")>>, << >>, << >>, << >>),
      Group("pin", <<EscapedString("B")>>, << >>, << >>, << >>),
      Group("cell", <<Name("A")>>, << >>, << >>, << >>) }

InitSelect ==
    /\ attributes = << >>
    /\ groups \in SeqsUpTo(TimingMenu \cup NamedMenu, MaxSelect)
    /\ args = << >>
    /\ defines = << >>
    /\ ret = NoCall
    /\ original = attributes
    /\ assigned = 0

SelectCell(cell_name) ==
    /\ ret' = [op |-> "select_cell", name |-> cell_name, out |-> select_cell(groups, cell_name)]
    /\ UNCHANGED <<attributes, groups, args, defines, original, assigned, notGroup>>

SelectPin(pin_name) ==
    /\ ret' = [op |-> "select_pin", name |-> pin_name, out |-> select_pin(groups, pin_name)]
    /\ UNCHANGED <<attributes, groups, args, defines, original, assigned, notGroup>>

SelectTimingGroup(related_pin, when, timing_type) ==
    /\ ret' = [op |-> "select_timing_group", related_pin |-> related_pin, when |-> when,
               timing_type |-> timing_type,
               out |-> select_timing_group(groups, related_pin, when, timing_type)]
    /\ UNCHANGED <<attributes, groups, args, defines, original, assigned, notGroup>>

(***************************************************************************)
(* The specifications.                                                     *)
(***************************************************************************)
Init == InitGroup /\ IdleLiberty /\ IdleBoolean /\ IdleJson
Next == NextGroup
Spec == Init /\ [][Next]_vars

InitL == InitLiberty /\ IdleGroup /\ IdleBoolean /\ IdleJson
NextL == NextLiberty
SpecLiberty == InitL /\ [][NextL]_vars

InitBP == InitBooleanText /\ IdleGroup /\ IdleLiberty /\ IdleJson
NextBP == ParseBoolean
SpecBoolParse == InitBP /\ [][NextBP]_vars

InitBF == InitBooleanFunction /\ IdleGroup /\ IdleLiberty /\ IdleJson
NextBF == FormatBoolean \/ ParseBoolean
SpecBoolFormat == InitBF /\ [][NextBF]_vars

InitJ == InitJson /\ IdleGroup /\ IdleLiberty /\ IdleBoolean
NextJ == LibToJson
SpecJson == InitJ /\ [][NextJ]_vars

InitS == InitSelect /\ IdleLiberty /\ IdleBoolean /\ IdleJson
NextS ==
    \/ \E n \in RelatedPins : SelectCell(n)
    \/ \E n \in RelatedPins : SelectPin(n)
    \/ \E r \in RelatedPins, w \in {None} \cup {Name(x) : x \in Whens},
          ty \in {None} \cup {Name(x) : x \in TimingTypes} : SelectTimingGroup(r, w, ty)
SpecSelect == InitS /\ [][NextS]_vars

InitA == InitArray /\ IdleLiberty /\ IdleBoolean /\ IdleJson
NextA ==
    \/ \E k \in ArrayNames, a \in Arrays : SetArray(k, a)
    \/ \E k \in ArrayNames : GetArray(k)
SpecArray == InitA /\ [][NextA]_vars

InitG == InitAssign /\ IdleLiberty /\ IdleBoolean /\ IdleJson
NextG ==
    \/ \E k \in AssignedNames, v \in AssignedValues : SetItem(k, v)
    \/ \E k \in AssignedNames, a \in AssignedArrays : SetArray(k, a)
    \/ \E k \in AssignedNames, f \in AssignedFunctions : SetBooleanFunction(k, f)
    \/ \E k \in AssignedNames : GetBooleanFunction(k)
    \/ \E k \in AssignedNames : GetItem(k)
    \/ \E k \in AssignedNames : GetArray(k)
SpecAssign == InitG /\ [][NextG]_vars

(***************************************************************************)
(* Claims about the group queries.                                         *)
(***************************************************************************)
\* The indices of the attributes named n, and the j-th of them.
IndicesOf(attrs, n) == {i \in 1..Len(attrs) : attrs[i].name = n}
NthIndex(attrs, n, j) ==
    CHOOSE i \in IndicesOf(attrs, n) :
        Cardinality({h \in IndicesOf(attrs, n) : h <= i}) = j

\* C1: when the attribute list holds k attributes named n, get_attributes(n)
\* returns exactly k values: the values of those attributes, in declaration order.
C1_Multiplicity ==
    ret.op = "get_attributes" =>
        /\ Len(ret.out) = Cardinality(IndicesOf(attributes, ret.key))
        /\ \A j \in 1..Len(ret.out) :
               ret.out[j] = attributes[NthIndex(attributes, ret.key, j)].value

\* Two attributes of one name, the second appended after parsing, were queried.
C1_Witness ==
    /\ ret.op = "get_attributes"
    /\ Len(ret.out) >= 2
    /\ ret.out[1] # ret.out[2]
    /\ Len(attributes) = MaxAttrs

\* C2: get_attribute(name, default) returns the value when exactly one attribute
\* has the name, the default when none has, fails as not unique when two or more
\* have; the call leaves the attributes unchanged.
C2_Result ==
    ret.op = "get_attribute" =>
        LET idx == IndicesOf(attributes, ret.key)
        IN /\ Cardinality(idx) = 0 =>
                 ret.out = [kind |-> "default", value |-> ret.default]
           /\ Cardinality(idx) = 1 =>
                 \E i \in idx : ret.out = [kind |-> "value", value |-> attributes[i].value]
           /\ Cardinality(idx) >= 2 => ret.out.kind = "AssertionError"

C2_Frame == (ret'.op = "get_attribute") => (attributes' = attributes)

Matches(g, ty, a) ==
    /\ g.group_name = ty
    /\ a # None => /\ g.args # << >>
                   /\ Head(g.args) \in {Name(a.s), EscapedString(a.s)}

IsSubsequenceAt(sub, full, pos) ==
    /\ Len(pos) = Len(sub)
    /\ \A j \in 1..Len(pos) : pos[j] \in 1..Len(full) /\ sub[j] = full[pos[j]]
    /\ \A j \in 1..(Len(pos) - 1) : pos[j] < pos[j + 1]

C3_Groups ==
    /\ ret.op = "get_groups" =>
         LET want == {i \in 1..Len(groups) :
                         Matches(groups[i], ret.type_name, ret.argument)}
         IN /\ Len(ret.out) = Cardinality(want)
            /\ \E pos \in [1..Len(ret.out) -> want] :
                   /\ IsSubsequenceAt(ret.out, groups, pos)
                   /\ {pos[j] : j \in 1..Len(pos)} = want
    /\ ret.op = "get_group" =>
         LET want == {i \in 1..Len(groups) :
                         Matches(groups[i], ret.type_name, ret.argument)}
         IN IF Cardinality(want) = 1
            THEN \E i \in want : ret.out = [kind |-> "value", value |-> groups[i]]
            ELSE ret.out.kind = "AssertionError"

\* A supplied argument selected one of two children of the same type.
C3_Witness ==
    /\ ret.op = "get_group"
    /\ ret.argument # None
    /\ ret.out.kind = "value"
    /\ Cardinality({i \in 1..Len(groups) : groups[i].group_name = ret.type_name}) = 2

(***************************************************************************)
(* Claims about parsing and formatting liberty text.                       *)
(***************************************************************************)
\* The number of top-level groups the text was written with.
TopCount(g) == IF g.family = "tops" THEN Len(g.names) ELSE 1

\* C4: parse_liberty returns the group when the text has exactly one top-level
\* group and raises when it has none or several; parse_multi_liberty returns
\* all the top-level groups, in source order, for any count, zero included.
C4_TopLevelGroups ==
    /\ multi # Unset =>
         /\ multi.kind = "value"
         /\ Len(multi.value) = TopCount(given)
         /\ given.family = "tops" =>
                \A i \in 1..Len(given.names) :
                    /\ multi.value[i].group_name = <<"l", "i", "b", "r", "a", "r", "y">>
                    /\ multi.value[i].args = <<Name(given.names[i])>>
    /\ lib # Unset =>
         IF TopCount(given) = 1
         THEN /\ lib.kind = "value"
              /\ multi # Unset => lib.value = multi.value[1]
         ELSE lib.kind = "Exception"

\* Two different libraries in one text: parse_multi_liberty listed both, in
\* order, and parse_liberty raised.
C4_Witness ==
    /\ given.family = "tops"
    /\ multi # Unset
    /\ Len(multi.value) = 2
    /\ multi.value[1].args # multi.value[2].args
    /\ lib.kind = "Exception"

\* C5: formatting a parsed library and parsing the text again yields a tree
\* equal to the first: the same names, args, attributes (value and variant of
\* the value), defines and child groups, in order.
C5_RoundTrip ==
    lpc \in {"reparsed", "done"} => lib2.kind = "value" /\ lib2.value = lib.value

\* C6: the formatted text of a parsed library parses, and formatting the
\* result gives the same text, character for character.
C6_IdempotentFormat ==
    /\ lpc \in {"reparsed", "done"} => lib2.kind = "value"
    /\ lpc = "done" => str2 = str1

\* C7: a simple attribute's value written as a number literal and, right after
\* it, a letter run that matches the unit rule is parsed as WithUnit(number,
\* letters); with no letters after it the literal, exponent included, is a
\* plain number.
C7_UnitDisambiguation ==
    (given.family = "unit" /\ lib # Unset) =>
        /\ lib.kind = "value"
        /\ Len(lib.value.attributes) = 1
        /\ lib.value.attributes[1].value =
               IF given.unit = << >> THEN Number(given.lit.milli)
               ELSE WithUnit(given.lit.milli, given.unit)

\* 2.5e-1EV was parsed: the exponent belongs to the number, EV is the unit.
C7_Witness ==
    /\ given.family = "unit"
    /\ given.lit.text = <<"2", ".", "5", "e", "-", "1">>
    /\ given.unit = <<"E", "V">>
    /\ lib.kind = "value"
    /\ lib.value.attributes[1].value.t = "WithUnit"
    /\ lib.value.attributes[1].value.unit = <<"E", "V">>

(***************************************************************************)
(* Claims about boolean functions.                                         *)
(***************************************************************************)
RECURSIVE SegmentsOf(_, _, _, _)
\* The operands lo..hi cut into runs at the operators of S, in order.
SegmentsOf(ops, lo, hi, S) ==
    LET cuts == {i \in lo..(hi - 1) : ops[i] \in S}
    IN IF cuts = {} THEN <<[lo |-> lo, hi |-> hi]>>
       ELSE LET c == CHOOSE i \in cuts : \A j \in cuts : i <= j
            IN <<[lo |-> lo, hi |-> c]>> \o SegmentsOf(ops, c + 1, hi, S)

\* Operand i as written: negated when "!" stands before or "'" after it.
Literal(g, i) == IF g.neg[i] = "" THEN Sym(i) ELSE Not(Sym(i))

RECURSIVE XorChain(_, _)
XorChain(g, seg) ==
    IF seg.lo = seg.hi THEN Literal(g, seg.lo)
    ELSE Xor(Literal(g, seg.lo), XorChain(g, [seg EXCEPT !.lo = seg.lo + 1]))

\* The OR of the runs between OR operators, each the AND of the runs between
\* AND operators or juxtapositions, each the XOR of its operands.
Grouped(g) ==
    LET n == Len(g.neg)
        ors == SegmentsOf(g.ops, 1, n, {"+", "|"})
        ands(o) == SegmentsOf(g.ops, o.lo, o.hi, {"&", "*", " "})
        conj(o) == and_expr([k \in 1..Len(ands(o)) |-> XorChain(g, ands(o)[k])])
    IN or_expr([k \in 1..Len(ors) |-> conj(ors[k])])

\* C8: parse_boolean_function binds NOT tighter than XOR, XOR tighter than
\* AND (&, * or juxtaposition) and AND tighter than OR (+, |): a text without
\* parentheses yields the tree grouped in that order, juxtaposed operands are
\* joined by AND, and "A' + B + C & D + E ^ F * G | (H + I)" yields
\* (!A) OR B OR (C AND D) OR ((E XOR F) AND G) OR (H OR I).
C8_Precedence ==
    (bpc = "parsed" /\ bgiven.family \in {"operators", "example"}) =>
        /\ f_parsed.kind = "value"
        /\ bgiven.family = "operators" => f_parsed.value = Grouped(bgiven)
        /\ bgiven.family = "example" => f_parsed.value = ExampleFunction

\* "A B ^ !C" or the like was parsed: a juxtaposition before an XOR that takes
\* a negated operand.
C8_Witness ==
    /\ bpc = "parsed"
    /\ bgiven.family = "operators"
    /\ Len(bgiven.neg) = 3
    /\ bgiven.ops = <<" ", "^">>
    /\ bgiven.neg[3] # ""
    /\ f_parsed.kind = "value"
    /\ f_parsed.value.op = "And"

\* The truth value of exp under the assignment env.
RECURSIVE Eval(_, _)
Eval(exp, env) ==
    CASE exp.op = "Symbol" -> env[exp.name]
      [] exp.op = "BooleanTrue" -> TRUE
      [] exp.op = "BooleanFalse" -> FALSE
      [] exp.op = "Not" -> ~Eval(TheArg(exp), env)
      [] exp.op = "And" -> \A a \in exp.args : Eval(a, env)
      [] exp.op = "Or" -> \E a \in exp.args : Eval(a, env)
      [] exp.op = "Xor" -> Cardinality({a \in exp.args : Eval(a, env)}) % 2 = 1

Equivalent(e1, e2) ==
    \A env \in [{<<BooleanNames[i]>> : i \in 1..Len(BooleanNames)} -> BOOLEAN] :
        Eval(e1, env) = Eval(e2, env)

\* C9: for every expression built from the variables with Not, And, Or and
\* Xor in any nesting, the text format_boolean_function gives parses to an
\* expression logically equivalent to it.
C9_RoundTrip ==
    (bpc = "parsed" /\ bgiven.family = "function") =>
        /\ f_parsed.kind = "value"
        /\ Equivalent(f_parsed.value, function)

(***************************************************************************)
(* Claims about the JSON projection.                                       *)
(***************************************************************************)
\* The member of the JSON object obj under key k.
Member(obj, k) == obj.members[k]
Last(arr) == arr.items[Len(arr.items)]

\* The mapping the document doc holds for the group at place p.
CellOf(doc) == Member(Member(doc, KeyCells), <<"c">>)
PinOf(doc) == Member(CellOf(doc), <<"p", "i", "n", ",", "p">>)
TimingOf(doc) == Member(PinOf(doc), <<"t", "i", "m", "i", "n", "g">>)
MappingAt(doc, p) ==
    CASE p = "library" -> doc
      [] p = "child" -> Member(doc, <<"o", "p", "e", "r", "a", "t", "i", "n", "g", "_", "c", "o", "n", "d", "i", "t", "i", "o", "n", "s", ",", "o", "c">>)
      [] p = "cell" -> CellOf(doc)
      [] p = "unnamed" -> Last(Member(CellOf(doc), <<"t", "e", "s", "t", "_", "c", "e", "l", "l">>))
      [] p = "named" -> PinOf(doc)
      [] p = "gr1" -> TimingOf(doc)
      [] p = "gr2" -> Member(TimingOf(doc), <<"c", "e", "l", "l", "_", "r", "i", "s", "e", ",", "t">>)

\* The values of the attributes named n, in declaration order, as written to
\* the document.
ValuesOf(attrs, n) ==
    LET idx == {i \in 1..Len(attrs) : attrs[i].name = n}
        nth(j) == CHOOSE i \in idx : Cardinality({h \in idx : h <= i}) = j
    IN [j \in 1..Cardinality(idx) |-> Encode(attrs[nth(j)].value)]

AttributeRule(mapping, attrs) ==
    \A i \in 1..Len(attrs) :
        LET n == attrs[i].name
            vals == ValuesOf(attrs, n)
            keys == DOMAIN mapping.members
        IN IF Len(vals) = 1
           THEN /\ n \in keys
                /\ mapping.members[n] = vals[1]
                /\ CompAttribute \o n \notin keys
           ELSE /\ n \notin keys
                /\ CompAttribute \o n \in keys
                /\ mapping.members[CompAttribute \o n] = [t |-> "array", items |-> vals]

\* The inputs of the first sort: quoted first arguments, each group written
\* once, values that json.dump writes, at a place with a mapping of its own.
AttributeCase ==
    /\ jgiven.quoted
    /\ ~jgiven.twice
    /\ jgiven.place \notin {"child0", "gr2_0"}
    /\ \A i \in 1..Len(jgiven.attrs) : jgiven.attrs[i].value.t # "WithUnit"

\* C10: in the mapping built for a group, an attribute name that occurs once
\* maps to the attribute's value under the bare name, a name that occurs k >= 2
\* times appears only under "comp_attribute,<name>" with the list of its k
\* values in declaration order, and no attribute value of the group is missing.
C10_AttributeRule ==
    (json_file # Unset /\ AttributeCase) =>
        /\ json_file.kind = "value"
        /\ AttributeRule(MappingAt(json_file.value, jgiven.place), jgiven.attrs)

\* The keys that lead from the document to the mapping of the group at place
\* p, when the group has a first argument.
KeyChild == NameOperatingConditions \o <<",", "o", "c">>
KeyPin == NamePin \o <<",", "p">>
KeyCellRise == NameCellRise \o <<",", "t">>
PathTo(p) ==
    CASE p = "child" -> <<KeyChild>>
      [] p = "cell" -> <<KeyCells, <<"c">> >>
      [] p = "named" -> <<KeyCells, <<"c">>, KeyPin>>
      [] p = "gr2" -> <<KeyCells, <<"c">>, KeyPin, NameTiming, KeyCellRise>>

\* The document obj holds a JSON object at the end of the path of keys.
RECURSIVE Reaches(_, _)
Reaches(obj, path) ==
    /\ obj.t = "object"
    /\ \/ path = << >>
       \/ /\ Head(path) \in DOMAIN obj.members
          /\ Reaches(obj.members[Head(path)], Tail(path))

\* The inputs whose attribute values json.dump writes, with each group written
\* once.
PlainValues(attrs) == \A i \in 1..Len(attrs) : attrs[i].value.t # "WithUnit"
WrittenOnce == json_file # Unset /\ ~jgiven.twice /\ PlainValues(jgiven.attrs)

\* C11: a cell is stored under "cells" keyed by its first argument, and any
\* other child group with a first argument under "<group_name>,<first_arg>",
\* as the mapping built from that child by the same rules, whether the first
\* argument was written as a bareword name or as a quoted string.
C11_ChildGroupRule ==
    (WrittenOnce /\ jgiven.place \in {"child", "cell", "named", "gr2"}) =>
        /\ json_file.kind = "value"
        /\ Reaches(json_file.value, PathTo(jgiven.place))
        /\ AttributeRule(MappingAt(json_file.value, jgiven.place), jgiven.attrs)

\* The keys that lead from the document to the mapping of the group that
\* holds the argument-less group at place p, and the name of that group.
ParentPath(p) ==
    CASE p = "child0" -> << >>
      [] p = "unnamed" -> <<KeyCells, <<"c">> >>
      [] p = "gr1" -> <<KeyCells, <<"c">>, KeyPin>>
      [] p = "gr2_0" -> <<KeyCells, <<"c">>, KeyPin, NameTiming>>

GroupNameAt(p) ==
    CASE p = "child0" -> NameOperatingConditions
      [] p = "unnamed" -> NameTestCell
      [] p = "gr1" -> NameTiming
      [] p = "gr2_0" -> NameCellRise

RECURSIVE ObjectAt(_, _)
ObjectAt(obj, path) ==
    IF path = << >> THEN obj ELSE ObjectAt(obj.members[Head(path)], Tail(path))

IsMappingOf(entry, attrs) == entry.t = "object" /\ AttributeRule(entry, attrs)

\* The entry under the group name of n argument-less siblings, the first
\* with the attributes attrs and the others empty: one mapping per sibling
\* in declaration order (a lone sibling as the mapping itself or as a list of
\* one).
SiblingsRule(entry, n, attrs) ==
    \/ n = 1 /\ IsMappingOf(entry, attrs)
    \/ /\ entry.t = "array"
       /\ Len(entry.items) = n
       /\ IsMappingOf(entry.items[1], attrs)
       /\ \A i \in 2..n : entry.items[i] = Encode(EmptyDict)

ArgumentLess(places) ==
    /\ json_file # Unset
    /\ jgiven.quoted
    /\ PlainValues(jgiven.attrs)
    /\ jgiven.place \in places

SiblingsStored ==
    /\ json_file.kind = "value"
    /\ Reaches(json_file.value, ParentPath(jgiven.place))
    /\ GroupNameAt(jgiven.place)
           \in DOMAIN ObjectAt(json_file.value, ParentPath(jgiven.place)).members
    /\ SiblingsRule(ObjectAt(json_file.value, ParentPath(jgiven.place)).members[GroupNameAt(jgiven.place)],
                    IF jgiven.twice THEN 2 ELSE 1, jgiven.attrs)

\* C12: at every nesting level a child group with no first argument is stored
\* under its group name as the mapping built from it, and siblings that share
\* a group name become a list with one mapping per sibling in declaration
\* order, none overwritten.
C12_ArgumentLessChildren ==
    ArgumentLess({"child0", "unnamed", "gr1", "gr2_0"}) => SiblingsStored

\* The JSON leaf the value v is to be written as: a number as a JSON number,
\* an EscapedString as its inner text, a WithUnit as its formatted string.
Leaf(v) ==
    CASE v.t = "float" -> [t |-> "number", v |-> v.v]
      [] v.t = "EscapedString" -> [t |-> "string", s |-> v.value]
      [] v.t = "WithUnit" -> [t |-> "string", s |-> format_value(v)]

\* Each attribute whose name occurs once is a leaf of the mapping.
LeafRule(mapping, attrs) ==
    \A i \in 1..Len(attrs) :
        attr_cnt(attrs, attrs[i].name) = 1 =>
            /\ attrs[i].name \in DOMAIN mapping.members
            /\ mapping.members[attrs[i].name] = Leaf(attrs[i].value)

\* The inputs with quoted first arguments and each group written once, at a
\* place whose attributes are stored.
LeafCase ==
    /\ json_file # Unset
    /\ jgiven.quoted
    /\ ~jgiven.twice
    /\ jgiven.place \in {"library", "child", "cell", "unnamed", "named", "gr2"}

\* C13: the projection succeeds for every value variant the parser produces:
\* an EscapedString is written as its inner text, a WithUnit as its formatted
\* string, a Number as a JSON number, and no TypeError is raised for them.
C13_LeafEncoding ==
    LeafCase =>
        /\ json_file.kind = "value"
        /\ LeafRule(MappingAt(json_file.value, jgiven.place), jgiven.attrs)

(***************************************************************************)
(* Claims about arrays.                                                    *)
(***************************************************************************)
\* C14: after set_array(name, a) on a group in any state, also one that
\* already holds an attribute called name, get_array(name) succeeds and
\* returns an array with the shape and the elements of a.
C14_SetArrayInverse ==
    ret.op = "set_array" => get_array(attributes, ret.key) = Value(ret.value)

(***************************************************************************)
(* Claims about strings.                                                   *)
(***************************************************************************)
\* An EscapedString between double quotes, its inner quotes escaped again.
Rendered(v) == <<DQ>> \o Replace(v.value, <<DQ>>, <<BS, DQ>>) \o <<DQ>>

Occurs(text, part) == FindFrom(text, part, 1) # 0

\* Every EscapedString among the values vs is rendered in the text.
AllRendered(text, vs) ==
    \A i \in 1..Len(vs) : vs[i].t = "EscapedString" => Occurs(text, Rendered(vs[i]))

\* The arguments of g, the simple values of its attributes and the elements
\* of its complex attributes.
ValuesIn(g) ==
    g.args
        \o Chain([i \in 1..Len(g.attributes) |->
                     IF g.attributes[i].value.t = "list" THEN g.attributes[i].value.l
                     ELSE <<g.attributes[i].value>>])

\* C15: formatting renders every EscapedString, be it a simple value, an
\* element of a complex attribute or a group argument, between double quotes
\* with its inner quotes escaped again.
C15_QuotedStrings ==
    lpc \in {"formatted", "reparsed", "done"} => AllRendered(str1, ValuesIn(lib.value))

\* The inner text of a string literal with each backslash-quote turned into a
\* quote and each escaped newline, backslash LF or backslash CR LF, removed.
Unescaped(literal) ==
    Replace(Replace(Replace(SubSeq(literal, 2, Len(literal) - 1), <<BS, DQ>>, <<DQ>>),
                    <<BS, CR, NL>>, << >>),
            <<BS, NL>>, << >>)

\* The string literals of a text, and the EscapedStrings among values.
Literals(text) ==
    {Lex(text)[i].s : i \in {j \in 1..Len(Lex(text)) :
                                 Lex(text)[j].k = "ESCAPED_STRING_MULTILINE"}}
Strings(vs) == {vs[i].value : i \in {j \in 1..Len(vs) : vs[j].t = "EscapedString"}}

\* C16: the value parsed from a quoted string literal is the inner text with
\* every backslash-quote replaced by a quote and every escaped newline
\* (backslash LF, backslash CR LF) removed; it holds no backslash-newline of
\* either form.
C16_EscapedNewlines ==
    (given.family = "body" /\ lib # Unset /\ lib.kind = "value") =>
        /\ Strings(ValuesIn(lib.value)) = {Unescaped(l) : l \in Literals(src)}
        /\ \A v \in Strings(ValuesIn(lib.value)) :
               ~Occurs(v, <<BS, NL>>) /\ ~Occurs(v, <<BS, CR, NL>>)

(***************************************************************************)
(* Claims about the selectors.                                             *)
(***************************************************************************)
\* The values a miss on key is to list: the related_pin values of the timing
\* groups, the `when` values of those that match the related pin, the
\* timing_type values of those that match so far.
AvailableFor(call, timing) ==
    LET byPin == Matching(timing, "related_pin", call.related_pin)
        byWhen == IF call.when = None THEN byPin ELSE Matching(byPin, "when", call.when.s)
    IN CASE call.out.key = "related_pin" -> Candidates(timing, "related_pin")
         [] call.out.key = "when" -> Candidates(byPin, "when")
         [] call.out.key = "timing_type" -> Candidates(byWhen, "timing_type")

\* C17: a selector that misses lists the keys that were available: the cell
\* names, the pin names, and for a timing group the related_pin values, the
\* `when` values of the groups matching the related pin, or the timing_type
\* values of the groups matching so far.
C17_AvailableKeys ==
    /\ (ret.op \in {"select_cell", "select_pin"} /\ ret.out.kind = "KeyError") =>
           ret.out.available = {g.args[1] : g \in {groups[i] : i \in {j \in 1..Len(groups) :
                                   groups[j].group_name = ret.out.key}}}
    /\ (ret.op = "select_timing_group" /\ ret.out.kind = "KeyError") =>
           ret.out.available = AvailableFor(ret, get_groups(groups, "timing", None))

(***************************************************************************)
(* Claims about arithmetic expressions.                                    *)
(***************************************************************************)
\* C18: an arithmetic expression is stored unevaluated, as an ArithExpression
\* whose string is the tokens of the expression in source order joined by
\* single spaces, a leading unary - or ! included.
C18_ArithmeticStored ==
    (given.family = "arith" /\ lib # Unset) =>
        /\ lib.kind = "value"
        /\ lib.value.attributes
              = <<Attribute(NameVimax, ArithExpression(Join(given.tokens, <<" ">>)))>>

(***************************************************************************)
(* Claims about boolean constants.                                         *)
(***************************************************************************)
\* C19: the boolean-function parser accepts the constants 0 and 1 wherever an
\* atom is allowed: "0", "1", "A & 1" and "!0 + B" parse to the functions
\* they denote.
C19_BooleanConstants ==
    (bpc = "parsed" /\ bgiven.family = "constants") =>
        /\ f_parsed.kind = "value"
        /\ f_parsed.value = bgiven.denotes

(***************************************************************************)
(* Claims about assignments to a group.                                    *)
(***************************************************************************)
\* The calls that reached the assignment group[key] = value.
Completed(call) ==
    \/ call.op \in {"__setitem__", "set_array"}
    \/ call.op = "set_boolean_function" /\ call.out = "value"

\* How many of the attributes assigned since construction are named key.
AssignedTo(key) ==
    Cardinality({i \in (Len(original) + 1)..Len(attributes) : attributes[i].name = key})

AppendedOne ==
    Completed(ret') =>
        /\ Len(attributes') = Len(attributes) + 1
        /\ SubSeq(attributes', 1, Len(attributes)) = attributes
        /\ attributes'[Len(attributes')].name = ret'.key
        /\ groups' = groups
        /\ args' = args
        /\ defines' = defines

AppendedAll ==
    /\ Len(attributes) = Len(original) + assigned
    /\ SubSeq(attributes, 1, Len(original)) = original
    /\ (ret.op = "__getitem__" /\ AssignedTo(ret.key) >= 2) =>
           ret.out.kind = "AssertionError"

\* C20: an assignment group[key] = value, also through set_array and
\* set_boolean_function, appends one attribute named key at the end of the
\* attribute list and replaces or removes none: the attributes before it keep
\* their names, values and order, and args, defines and child groups are
\* unchanged; after n assignments to a group made with m attributes the list
\* has m + n attributes, and group[key] read after two assignments to one key
\* fails as not unique.
C20_AppendOnly == [](AppendedAll) /\ [][AppendedOne]_vars

\* group[key] was read after an array and a boolean function were assigned to
\* the key of an attribute the group was made with.
C20_Witness ==
    /\ ret.op = "__getitem__"
    /\ ret.out.kind = "AssertionError"
    /\ Len(original) = 1
    /\ original[1].name = ret.key
    /\ assigned = 2
    /\ AssignedTo(ret.key) = 2
    /\ attributes[2].value.t = "list"
    /\ attributes[3].value.t = "str"

\* The attributes named key.
Named(key) == {i \in 1..Len(attributes) : attributes[i].name = key}

Absent == (ret.op = "get_boolean_function" /\ Named(ret.key) = {}) => ret.out = Value(None)

ReadBack ==
    (/\ ret.op = "set_boolean_function"
     /\ ret.out = "value"
     /\ Cardinality(Named(ret.key)) = 1
     /\ ret'.op = "get_boolean_function"
     /\ ret'.key = ret.key) => ret'.out = Value(ret.boolean)

\* C21: get_boolean_function(key) returns None when the group has no attribute
\* named key, and called after set_boolean_function(key, e) on a group that had
\* no attribute named key it returns an expression equal to e.
C21_FunctionReadBack == [](Absent) /\ [][ReadBack]_vars
====
